---- MODULE Spec2Model ----
(***************************************************************************)
(* Model of the OpenFCU fire-control unit (src/buttons.ino): the debounced *)
(* button inputs, the shot executor, the six-state fire-control machine    *)
(* and the settings menu that commits new settings.                        *)
(*                                                                         *)
(* One step of the model is one call of loop(): the levels of the input    *)
(* pins and the time that passed since the previous call are its inputs.   *)
(* millis() is not kept as an absolute number: every time stamp t the      *)
(* program stores is kept as the elapsed time millis() - t, which is the   *)
(* only way the program ever uses it (unsigned subtraction).  Elapsed      *)
(* times saturate above the largest threshold they are compared with.      *)
(***************************************************************************)
EXTENDS Integers, Sequences, FiniteSets, TLC

\* ------------------------------------------------------------------
\* Defines and constants of the program
\* ------------------------------------------------------------------

BUTTON_PRESSED == "LOW"
BUTTON_RELEASED == "HIGH"
SOLENOID_ON == "HIGH"
SOLENOID_OFF == "LOW"
Level == {"LOW", "HIGH"}

STATUS_IDLE == 0
STATUS_SEMI_AUTO == 1
STATUS_FULL_AUTO == 2
STATUS_BINARY_TRIGGER_TAIL == 3
STATUS_RELOAD == 4
STATUS_MENU == 5

RELOAD_WAITING_FOR_MAGAZINE_OUT == 0
RELOAD_WAITING_FOR_MAGAZINE_IN == 1

MENU_CONTINUE == 0
MENU_SAVE_AND_EXIT == 1
MENU_DISCARD_AND_EXIT == 2

ID_MENU_EXIT_MESSAGE_NOT_MODIFIED == 0
ID_MENU_EXIT_MESSAGE_DISCARDED == 1
ID_MENU_EXIT_MESSAGE_SAVED == 2
MENU_EXIT_MESSAGE_DURATION_MS == 2000

triggerPin == 3
fireSelectorPin == 4
magazinePin == 5
joyUpPin == 8
joyLeftPin == 9
joySelectPin == 7
joyRightPin == 11
joyDownPin == 10
solenoidPin == 2
muzzlePin == 6

ID_BUTTON_FIRE_SELECTOR == 0
ID_BUTTON_MAGAZINE == 1
ID_BUTTON_JOY_UP == 2
ID_BUTTON_JOY_LEFT == 3
ID_BUTTON_JOY_SELECT == 4
ID_BUTTON_JOY_RIGHT == 5
ID_BUTTON_JOY_DOWN == 6
ID_BUTTON_INVALID == -1

numButtons == 7
buttonsDebouncingTimeMs == 50

MENU_MODE_DISPLAY_MENU_PAGE == 0
MENU_MODE_MODIFY_SETTING == 1

ID_SETTING_SHOT_DELAY_MS == 0
ID_SETTING_BURST_DELAY_MS == 1
ID_SETTING_DWELL_MS == 2
ID_SETTING_TRIGGER_DEBOUNCING_MS == 3
ID_SETTING_NUM_SHOTS_PER_BURST == 4
ID_SETTING_SHOT_LIMIT == 5
ID_SETTING_FULL_AUTO_BURST == 6
ID_SETTING_BINARY_TRIGGER == 7
ID_SETTING_FORCE_RELOAD == 8
ID_SETTING_MUZZLE_FLASH == 9
ID_SETTINGS_INVERTED_FIRE_SELECTOR == 10

SETTING_TYPE_BOOL == 1
SETTING_TYPE_UINT == 2

SETTING_DELAY_VALUE_MIN == 1
SETTING_DELAY_VALUE_MAX == 2000
SETTING_DELAY_LONG_PRESS_DELTA == 10
SETTING_NUM_SHOT_VALUE_MIN == 1
SETTING_NUM_SHOT_VALUE_MAX == 1000
SETTING_NUM_SHOT_LONG_PRESS_DELTA == 5

NUM_MAX_SETTINGS_PER_MENU_PAGE == 6
numTotSettings == 11
numMenuPages ==
    IF numTotSettings % NUM_MAX_SETTINGS_PER_MENU_PAGE # 0
    THEN (numTotSettings \div NUM_MAX_SETTINGS_PER_MENU_PAGE) + 1
    ELSE numTotSettings \div NUM_MAX_SETTINGS_PER_MENU_PAGE

minDurationForLongPressMs == 2000
longPressIntervalBetweenIncDecMs == 100

\* ------------------------------------------------------------------
\* Bounds of the model
\* ------------------------------------------------------------------

\* Elapsed times of the button channels saturate here (they are compared
\* with buttonsDebouncingTimeMs only).
MaxElapsedMs == 51
\* Largest shot limit and burst size among the stored settings images.
MaxShotLimit == 3
MaxBurst == 2
\* Largest value the operator dials in while editing a numeric setting.
MaxEdit == 3
\* The operator opens the menu at most this many times.
MaxMenuEntries == 1
\* Counts of observed shots and new presses saturate here.
MaxTracked == 4

JoyButtons ==
    { ID_BUTTON_JOY_UP, ID_BUTTON_JOY_LEFT, ID_BUTTON_JOY_SELECT,
      ID_BUTTON_JOY_RIGHT, ID_BUTTON_JOY_DOWN }

\* ------------------------------------------------------------------
\* Settings
\* ------------------------------------------------------------------

\* struct tagSettings with its default member initialisers
DefaultSettings ==
    [ shotDelayMs |-> 200, burstDelayMs |-> 400, dwellMs |-> 200,
      triggerDebouncingMs |-> 50, numShotsPerBurst |-> 3, shotLimit |-> 30,
      fullAutoBurst |-> FALSE, binaryTrigger |-> FALSE, forceReload |-> TRUE,
      muzzleFlash |-> FALSE, invertedFireSelector |-> FALSE ]

\* The field of Settings a setting id stands for (getSettingValue)
SettingField(settingId) ==
    CASE settingId = ID_SETTING_SHOT_DELAY_MS -> "shotDelayMs"
      [] settingId = ID_SETTING_BURST_DELAY_MS -> "burstDelayMs"
      [] settingId = ID_SETTING_DWELL_MS -> "dwellMs"
      [] settingId = ID_SETTING_TRIGGER_DEBOUNCING_MS -> "triggerDebouncingMs"
      [] settingId = ID_SETTING_NUM_SHOTS_PER_BURST -> "numShotsPerBurst"
      [] settingId = ID_SETTING_SHOT_LIMIT -> "shotLimit"
      [] settingId = ID_SETTING_FULL_AUTO_BURST -> "fullAutoBurst"
      [] settingId = ID_SETTING_BINARY_TRIGGER -> "binaryTrigger"
      [] settingId = ID_SETTING_FORCE_RELOAD -> "forceReload"
      [] settingId = ID_SETTING_MUZZLE_FLASH -> "muzzleFlash"
      [] settingId = ID_SETTINGS_INVERTED_FIRE_SELECTOR -> "invertedFireSelector"

\* ------------------------------------------------------------------
\* The program's globals, packed in one record g while a call of loop()
\* runs.  g.pin holds the levels digitalRead returns, g.trigAfter the level
\* of the trigger line once a blocking delay has passed, g.hw the trace of
\* the calls with an outside effect made during the current loop() call.
\* ------------------------------------------------------------------

Ev(op, pin, val) == [op |-> op, pin |-> pin, val |-> val]

Log(g, e) == [g EXCEPT !.hw = Append(@, e)]

Min(a, b) == IF a < b THEN a ELSE b
Max(a, b) == IF a > b THEN a ELSE b

\* ms milliseconds pass: every elapsed time grows, saturating
Elapse(g, ms) ==
    [g EXCEPT
       !.buttons = [i \in DOMAIN @ |->
                      [@[i] EXCEPT !.sinceStartMs = Min(@ + ms, MaxElapsedMs)]],
       !.sincePressStartMs = Min(@ + ms, minDurationForLongPressMs),
       !.sinceLastModificationMs = Min(@ + ms, longPressIntervalBetweenIncDecMs)]

\* delay(ms): the program blocks; time passes and the trigger line may move
delay(g, ms) ==
    LET g1 == Log(g, Ev("delay", 0, ms))
        g2 == Elapse(g1, ms)
    IN  [g2 EXCEPT !.pin[triggerPin] = g.trigAfter]

digitalWrite(g, pin, val) ==
    LET g1 == Log(g, Ev("digitalWrite", pin, val))
    IN  [g1 EXCEPT !.out[pin] = val]

\* ------------------------------------------------------------------
\* Utilities for buttons input and debouncing
\* ------------------------------------------------------------------

ButtonPins ==
    << fireSelectorPin, magazinePin, joyUpPin, joyLeftPin, joySelectPin,
       joyRightPin, joyDownPin >>

getButtonPin(buttonId) == ButtonPins[buttonId + 1]

\* ButtonData buttons[] initialiser; startTimeMs = 0 is kept as the
\* elapsed time since 0, which is millis()
InitButton ==
    [ sinceStartMs |-> 0, buttonStatus |-> BUTTON_RELEASED,
      lastValidStatus |-> BUTTON_RELEASED, precStatusIsPressed |-> FALSE ]

buttonIsPressed(g, buttonId) ==
    g.buttons[buttonId].lastValidStatus = BUTTON_PRESSED

\* millis() - startTimeMs is the elapsed time kept in sinceStartMs
buttonPressDuration(g, buttonId) ==
    LET bd == g.buttons[buttonId]
    IN  IF bd.lastValidStatus = BUTTON_PRESSED THEN bd.sinceStartMs ELSE 0

\* readButtonWithDebouncing that does not restart the timer on a change
readButtonWithDebouncing_NoRestart(g, buttonId) ==
    LET bd == g.buttons[buttonId]
        statusNow == g.pin[getButtonPin(buttonId)]
        bd1 == IF statusNow # bd.buttonStatus
               THEN [bd EXCEPT !.buttonStatus = statusNow]
               ELSE bd
        bd2 == IF bd1.sinceStartMs > buttonsDebouncingTimeMs
               THEN [bd1 EXCEPT !.lastValidStatus = bd1.buttonStatus]
               ELSE bd1
    IN  [g EXCEPT !.buttons[buttonId] = bd2]

\* readButtonWithDebouncing with the window test inclusive (>= for >)
readButtonWithDebouncing_WindowInclusive(g, buttonId) ==
    LET bd == g.buttons[buttonId]
        statusNow == g.pin[getButtonPin(buttonId)]
        bd1 == IF statusNow # bd.buttonStatus
               THEN [bd EXCEPT !.sinceStartMs = 0, !.buttonStatus = statusNow]
               ELSE bd
        bd2 == IF bd1.sinceStartMs >= buttonsDebouncingTimeMs
               THEN [bd1 EXCEPT !.lastValidStatus = bd1.buttonStatus]
               ELSE bd1
    IN  [g EXCEPT !.buttons[buttonId] = bd2]

readButtonWithDebouncing(g, buttonId) ==
    LET bd == g.buttons[buttonId]
        statusNow == g.pin[getButtonPin(buttonId)]
        bd1 == IF statusNow # bd.buttonStatus
               THEN [bd EXCEPT !.sinceStartMs = 0, !.buttonStatus = statusNow]
               ELSE bd
        bd2 == IF bd1.sinceStartMs > buttonsDebouncingTimeMs
               THEN [bd1 EXCEPT !.lastValidStatus = bd1.buttonStatus]
               ELSE bd1
    IN  [g EXCEPT !.buttons[buttonId] = bd2]

\* thereIsANewPress that does not remember the press it has reported
thereIsANewPress_NoLatch(g, buttonId) ==
    LET bd == g.buttons[buttonId]
        Ret(gg, r) ==
            [g |-> Log(gg, Ev("thereIsANewPress", buttonId, IF r THEN 1 ELSE 0)),
             ret |-> r]
    IN  IF bd.lastValidStatus # BUTTON_PRESSED
        THEN Ret([g EXCEPT !.buttons[buttonId].precStatusIsPressed = FALSE], FALSE)
        ELSE IF bd.precStatusIsPressed
        THEN Ret(g, FALSE)
        ELSE Ret(g, TRUE)

\* returns [g, ret]; every call is traced in g.hw
thereIsANewPress(g, buttonId) ==
    LET bd == g.buttons[buttonId]
        Ret(gg, r) ==
            [g |-> Log(gg, Ev("thereIsANewPress", buttonId, IF r THEN 1 ELSE 0)),
             ret |-> r]
    IN  IF bd.lastValidStatus # BUTTON_PRESSED
        THEN Ret([g EXCEPT !.buttons[buttonId].precStatusIsPressed = FALSE], FALSE)
        ELSE IF bd.precStatusIsPressed
        THEN Ret(g, FALSE)
        ELSE Ret([g EXCEPT !.buttons[buttonId].precStatusIsPressed = TRUE], TRUE)

RECURSIVE readButtonsFrom(_, _)
readButtonsFrom(g, i) ==
    IF i < numButtons
    THEN readButtonsFrom(readButtonWithDebouncing(g, i), i + 1)
    ELSE g

readAllButtons(g) == readButtonsFrom(g, 0)

\* ------------------------------------------------------------------
\* EEPROM
\* ------------------------------------------------------------------

isEepromValid(g) == g.eeprom.magic

saveSettingsToEeprom(g) ==
    LET g1 == Log(g, Ev("EEPROM.put", 0, 0))
    IN  [g1 EXCEPT !.eeprom = [magic |-> TRUE, data |-> g.settings]]

\* returns [g, ret]
readSettingsFromEeprom(g) ==
    IF ~isEepromValid(g)
    THEN [g |-> g, ret |-> FALSE]
    ELSE [g |-> [g EXCEPT !.settings = g.eeprom.data], ret |-> TRUE]

\* ------------------------------------------------------------------
\* Buttons
\* ------------------------------------------------------------------

\* returns [g, ret]: the raw level of the trigger line, read now
isTriggerPressed(g) ==
    [g |-> Log(g, Ev("digitalRead", triggerPin,
                     IF g.pin[triggerPin] = BUTTON_PRESSED THEN 1 ELSE 0)),
     ret |-> g.pin[triggerPin] = BUTTON_PRESSED]

isMagazineButtonPressed(g) == buttonIsPressed(g, ID_BUTTON_MAGAZINE)

isFireSelectorInAutoPosition(g) ==
    LET isFireSelectorPressed == buttonIsPressed(g, ID_BUTTON_FIRE_SELECTOR)
    IN  IF g.settings.invertedFireSelector
        THEN ~isFireSelectorPressed
        ELSE isFireSelectorPressed

thereIsANewJoySelectPress(g) == thereIsANewPress(g, ID_BUTTON_JOY_SELECT)

\* ------------------------------------------------------------------
\* Shot low level
\* ------------------------------------------------------------------

\* doOneShot with the limit test off by one (> for >=)
doOneShot_LimitOffByOne(g) ==
    IF g.settings.forceReload /\ g.shotCount > g.settings.shotLimit
    THEN [g |-> Log(g, Ev("doOneShot", 0, 0)), ret |-> FALSE]
    ELSE
      LET g1 == IF g.settings.forceReload
                THEN [g EXCEPT !.shotCount = (@ + 1) % 65536]
                ELSE g
          g2 == digitalWrite(g1, solenoidPin, SOLENOID_ON)
          g3 == IF g.settings.muzzleFlash
                THEN digitalWrite(g2, muzzlePin, "HIGH") ELSE g2
          g4 == delay(g3, g.settings.dwellMs)
          g5 == digitalWrite(g4, solenoidPin, SOLENOID_OFF)
          g6 == IF g.settings.muzzleFlash
                THEN digitalWrite(g5, muzzlePin, "LOW") ELSE g5
          g7 == delay(g6, g.settings.shotDelayMs)
      IN  [g |-> Log(g7, Ev("doOneShot", 0, 1)), ret |-> TRUE]

\* doOneShot that counts the shot also when forceReload is off
doOneShot_CountsWithoutForceReload(g) ==
    IF g.settings.forceReload /\ g.shotCount >= g.settings.shotLimit
    THEN [g |-> Log(g, Ev("doOneShot", 0, 0)), ret |-> FALSE]
    ELSE
      LET g1 == [g EXCEPT !.shotCount = (@ + 1) % 65536]
          g2 == digitalWrite(g1, solenoidPin, SOLENOID_ON)
          g3 == IF g.settings.muzzleFlash
                THEN digitalWrite(g2, muzzlePin, "HIGH") ELSE g2
          g4 == delay(g3, g.settings.dwellMs)
          g5 == digitalWrite(g4, solenoidPin, SOLENOID_OFF)
          g6 == IF g.settings.muzzleFlash
                THEN digitalWrite(g5, muzzlePin, "LOW") ELSE g5
          g7 == delay(g6, g.settings.shotDelayMs)
      IN  [g |-> Log(g7, Ev("doOneShot", 0, 1)), ret |-> TRUE]

\* doOneShot without the shot limit: never refuses
doOneShot_NoLimit(g) ==
    LET g1 == IF g.settings.forceReload
              THEN [g EXCEPT !.shotCount = (@ + 1) % 65536]
              ELSE g
        g2 == digitalWrite(g1, solenoidPin, SOLENOID_ON)
        g3 == IF g.settings.muzzleFlash
              THEN digitalWrite(g2, muzzlePin, "HIGH") ELSE g2
        g4 == delay(g3, g.settings.dwellMs)
        g5 == digitalWrite(g4, solenoidPin, SOLENOID_OFF)
        g6 == IF g.settings.muzzleFlash
              THEN digitalWrite(g5, muzzlePin, "LOW") ELSE g5
        g7 == delay(g6, g.settings.shotDelayMs)
    IN  [g |-> Log(g7, Ev("doOneShot", 0, 1)), ret |-> TRUE]

\* returns [g, ret]; ret is FALSE if forceReload and the limit is reached
doOneShot(g) ==
    IF g.settings.forceReload /\ g.shotCount >= g.settings.shotLimit
    THEN [g |-> Log(g, Ev("doOneShot", 0, 0)), ret |-> FALSE]
    ELSE
      LET g1 == IF g.settings.forceReload
                THEN [g EXCEPT !.shotCount = (@ + 1) % 65536]
                ELSE g
          g2 == digitalWrite(g1, solenoidPin, SOLENOID_ON)
          g3 == IF g.settings.muzzleFlash
                THEN digitalWrite(g2, muzzlePin, "HIGH") ELSE g2
          g4 == delay(g3, g.settings.dwellMs)
          g5 == digitalWrite(g4, solenoidPin, SOLENOID_OFF)
          g6 == IF g.settings.muzzleFlash
                THEN digitalWrite(g5, muzzlePin, "LOW") ELSE g5
          g7 == delay(g6, g.settings.shotDelayMs)
      IN  [g |-> Log(g7, Ev("doOneShot", 0, 1)), ret |-> TRUE]

transitionToStatusIdle(g) == [g EXCEPT !.status = STATUS_IDLE]

transitionToStatusReload(g) ==
    [g EXCEPT !.reloadStatus = RELOAD_WAITING_FOR_MAGAZINE_OUT,
              !.status = STATUS_RELOAD]

\* doNextShotAndGoToStatusReloadIfShotError without the transition to
\* RELOAD when the shot is refused
doNextShot_NoReload(g, numShotsRequired) ==
    IF g.currBurstShotCount < numShotsRequired
    THEN LET s == doOneShot(g)
         IN  IF ~s.ret
             THEN [g |-> s.g, ret |-> FALSE]
             ELSE [g |-> [s.g EXCEPT !.currBurstShotCount = (@ + 1) % 65536],
                   ret |-> FALSE]
    ELSE [g |-> g, ret |-> TRUE]

\* doNextShotAndGoToStatusReloadIfShotError that fires the next shot of the
\* burst in the same call when there is one
doNextShot_TwoShotsPerCall(g, numShotsRequired) ==
    IF g.currBurstShotCount < numShotsRequired
    THEN LET s == doOneShot(g)
             g1 == [s.g EXCEPT !.currBurstShotCount = (@ + 1) % 65536]
             t == doOneShot(g1)
         IN  IF ~s.ret
             THEN [g |-> transitionToStatusReload(s.g), ret |-> FALSE]
             ELSE IF g1.currBurstShotCount < numShotsRequired /\ t.ret
             THEN [g |-> [t.g EXCEPT !.currBurstShotCount = (@ + 1) % 65536],
                   ret |-> FALSE]
             ELSE [g |-> g1, ret |-> FALSE]
    ELSE [g |-> g, ret |-> TRUE]

\* returns [g, ret]; ret is TRUE when the burst is done
doNextShotAndGoToStatusReloadIfShotError(g, numShotsRequired) ==
    IF g.currBurstShotCount < numShotsRequired
    THEN LET s == doOneShot(g)
         IN  IF ~s.ret
             THEN [g |-> transitionToStatusReload(s.g), ret |-> FALSE]
             ELSE [g |-> [s.g EXCEPT !.currBurstShotCount = (@ + 1) % 65536],
                   ret |-> FALSE]
    ELSE [g |-> g, ret |-> TRUE]

\* ------------------------------------------------------------------
\* Binary trigger tail, semi auto, full auto, reload
\* ------------------------------------------------------------------

\* transitionToStatusBinaryTriggerTail without the reset of the counter
transitionToStatusBinaryTriggerTail_KeepsCount(g) ==
    [g EXCEPT !.status = STATUS_BINARY_TRIGGER_TAIL]

transitionToStatusBinaryTriggerTail(g) ==
    [g EXCEPT !.currBurstShotCount = 0, !.status = STATUS_BINARY_TRIGGER_TAIL]

\* manageStatusBinaryTriggerTail that starts another tail after the tail
manageStatusBinaryTriggerTail_Repeats(g) ==
    LET b == doNextShotAndGoToStatusReloadIfShotError(g, g.settings.numShotsPerBurst)
    IN  IF ~b.ret THEN b.g ELSE transitionToStatusBinaryTriggerTail(b.g)

manageStatusBinaryTriggerTail(g) ==
    LET b == doNextShotAndGoToStatusReloadIfShotError(g, g.settings.numShotsPerBurst)
    IN  IF ~b.ret THEN b.g ELSE transitionToStatusIdle(b.g)

\* transitionToStatusSemiAuto without the reset of the counter
transitionToStatusSemiAuto_KeepsCount(g) ==
    [g EXCEPT !.status = STATUS_SEMI_AUTO]

transitionToStatusSemiAuto(g) ==
    [g EXCEPT !.currBurstShotCount = 0, !.status = STATUS_SEMI_AUTO]

\* manageStatusSemiAuto that waits for the next burst without resetting
\* the burst counter
manageStatusSemiAuto_NoCounterReset(g) ==
    LET b == doNextShotAndGoToStatusReloadIfShotError(g, g.settings.numShotsPerBurst)
        t == isTriggerPressed(b.g)
    IN  IF ~b.ret THEN b.g
        ELSE IF isFireSelectorInAutoPosition(b.g) THEN transitionToStatusIdle(b.g)
        ELSE IF t.ret
        THEN IF ~t.g.settings.fullAutoBurst
             THEN t.g
             ELSE delay(t.g, t.g.settings.burstDelayMs)
        ELSE IF t.g.settings.fullAutoBurst
        THEN transitionToStatusIdle(delay(t.g, t.g.settings.triggerDebouncingMs))
        ELSE IF t.g.settings.binaryTrigger
        THEN transitionToStatusBinaryTriggerTail(t.g)
        ELSE transitionToStatusIdle(delay(t.g, t.g.settings.triggerDebouncingMs))

\* manageStatusSemiAuto built with APPLY_BINARY_TRIGGER_TO_FULL_AUTO_BURST
manageStatusSemiAuto_BinaryTailAfterFullAutoBurst(g) ==
    LET b == doNextShotAndGoToStatusReloadIfShotError(g, g.settings.numShotsPerBurst)
        t == isTriggerPressed(b.g)
    IN  IF ~b.ret THEN b.g
        ELSE IF isFireSelectorInAutoPosition(b.g) THEN transitionToStatusIdle(b.g)
        ELSE IF t.ret
        THEN IF ~t.g.settings.fullAutoBurst
             THEN t.g
             ELSE delay([t.g EXCEPT !.currBurstShotCount = 0],
                        t.g.settings.burstDelayMs)
        ELSE IF t.g.settings.binaryTrigger
        THEN transitionToStatusBinaryTriggerTail(t.g)
        ELSE transitionToStatusIdle(delay(t.g, t.g.settings.triggerDebouncingMs))

\* manageStatusSemiAuto with the trigger tested before the fire selector
manageStatusSemiAuto_TriggerFirst(g) ==
    LET b == doNextShotAndGoToStatusReloadIfShotError(g, g.settings.numShotsPerBurst)
        t == isTriggerPressed(b.g)
    IN  IF ~b.ret THEN b.g
        ELSE IF t.ret
        THEN IF ~t.g.settings.fullAutoBurst
             THEN t.g
             ELSE delay([t.g EXCEPT !.currBurstShotCount = 0],
                        t.g.settings.burstDelayMs)
        ELSE IF isFireSelectorInAutoPosition(t.g) THEN transitionToStatusIdle(t.g)
        ELSE IF t.g.settings.fullAutoBurst
        THEN transitionToStatusIdle(delay(t.g, t.g.settings.triggerDebouncingMs))
        ELSE IF t.g.settings.binaryTrigger
        THEN transitionToStatusBinaryTriggerTail(t.g)
        ELSE transitionToStatusIdle(delay(t.g, t.g.settings.triggerDebouncingMs))

\* manageStatusSemiAuto that starts the next burst whatever fullAutoBurst is
manageStatusSemiAuto_AlwaysContinues(g) ==
    LET b == doNextShotAndGoToStatusReloadIfShotError(g, g.settings.numShotsPerBurst)
        t == isTriggerPressed(b.g)
    IN  IF ~b.ret THEN b.g
        ELSE IF isFireSelectorInAutoPosition(b.g) THEN transitionToStatusIdle(b.g)
        ELSE IF t.ret
        THEN delay([t.g EXCEPT !.currBurstShotCount = 0],
                   t.g.settings.burstDelayMs)
        ELSE IF t.g.settings.fullAutoBurst
        THEN transitionToStatusIdle(delay(t.g, t.g.settings.triggerDebouncingMs))
        ELSE IF t.g.settings.binaryTrigger
        THEN transitionToStatusBinaryTriggerTail(t.g)
        ELSE transitionToStatusIdle(delay(t.g, t.g.settings.triggerDebouncingMs))

manageStatusSemiAuto(g) ==
    LET b == doNextShotAndGoToStatusReloadIfShotError(g, g.settings.numShotsPerBurst)
        t == isTriggerPressed(b.g)
    IN  IF ~b.ret THEN b.g
        ELSE IF isFireSelectorInAutoPosition(b.g) THEN transitionToStatusIdle(b.g)
        ELSE IF t.ret
        THEN IF ~t.g.settings.fullAutoBurst
             THEN t.g
             ELSE delay([t.g EXCEPT !.currBurstShotCount = 0],
                        t.g.settings.burstDelayMs)
        ELSE IF t.g.settings.fullAutoBurst
        THEN transitionToStatusIdle(delay(t.g, t.g.settings.triggerDebouncingMs))
        ELSE IF t.g.settings.binaryTrigger
        THEN transitionToStatusBinaryTriggerTail(t.g)
        ELSE transitionToStatusIdle(delay(t.g, t.g.settings.triggerDebouncingMs))

transitionToStatusFullAuto(g) == [g EXCEPT !.status = STATUS_FULL_AUTO]

\* manageStatusFullAuto that tests the fire selector after the shot
manageStatusFullAuto_ShotBeforeSelector(g) ==
    LET s == doOneShot(g)
        t == isTriggerPressed(s.g)
    IN  IF ~s.ret THEN transitionToStatusReload(s.g)
        ELSE IF ~isFireSelectorInAutoPosition(s.g) THEN transitionToStatusIdle(s.g)
        ELSE IF ~t.ret
        THEN transitionToStatusIdle(delay(t.g, t.g.settings.triggerDebouncingMs))
        ELSE t.g

\* manageStatusFullAuto built with APPLY_BINARY_TRIGGER_TO_FULL_AUTO
manageStatusFullAuto_BinaryTail(g) ==
    IF ~isFireSelectorInAutoPosition(g) THEN transitionToStatusIdle(g)
    ELSE LET s == doOneShot(g)
             t == isTriggerPressed(s.g)
         IN  IF ~s.ret THEN transitionToStatusReload(s.g)
             ELSE IF ~t.ret
             THEN IF t.g.settings.binaryTrigger
                  THEN transitionToStatusBinaryTriggerTail(t.g)
                  ELSE transitionToStatusIdle(
                           delay(t.g, t.g.settings.triggerDebouncingMs))
             ELSE t.g

\* manageStatusFullAuto that reads the trigger before the shot
manageStatusFullAuto_TriggerBeforeShot(g) ==
    IF ~isFireSelectorInAutoPosition(g) THEN transitionToStatusIdle(g)
    ELSE LET t == isTriggerPressed(g)
             s == doOneShot(t.g)
         IN  IF ~s.ret THEN transitionToStatusReload(s.g)
             ELSE IF ~t.ret
             THEN transitionToStatusIdle(delay(s.g, s.g.settings.triggerDebouncingMs))
             ELSE s.g

\* manageStatusFullAuto that goes back to IDLE after every shot
manageStatusFullAuto_StopsAfterShot(g) ==
    IF ~isFireSelectorInAutoPosition(g) THEN transitionToStatusIdle(g)
    ELSE LET s == doOneShot(g)
             t == isTriggerPressed(s.g)
         IN  IF ~s.ret THEN transitionToStatusReload(s.g)
             ELSE transitionToStatusIdle(delay(t.g, t.g.settings.triggerDebouncingMs))

\* manageStatusFullAuto that fires a last shot when the selector has moved
manageStatusFullAuto_LastShot(g) ==
    IF ~isFireSelectorInAutoPosition(g)
    THEN transitionToStatusIdle(doOneShot(g).g)
    ELSE LET s == doOneShot(g)
             t == isTriggerPressed(s.g)
         IN  IF ~s.ret THEN transitionToStatusReload(s.g)
             ELSE IF ~t.ret
             THEN transitionToStatusIdle(delay(t.g, t.g.settings.triggerDebouncingMs))
             ELSE t.g

manageStatusFullAuto(g) ==
    IF ~isFireSelectorInAutoPosition(g) THEN transitionToStatusIdle(g)
    ELSE LET s == doOneShot(g)
             t == isTriggerPressed(s.g)
         IN  IF ~s.ret THEN transitionToStatusReload(s.g)
             ELSE IF ~t.ret
             THEN transitionToStatusIdle(delay(t.g, t.g.settings.triggerDebouncingMs))
             ELSE t.g

\* manageStatusReload that accepts a magazine that was never removed
manageStatusReload_NoRemoval(g) ==
    IF isMagazineButtonPressed(g)
    THEN transitionToStatusIdle([g EXCEPT !.shotCount = 0])
    ELSE [g EXCEPT !.reloadStatus = RELOAD_WAITING_FOR_MAGAZINE_IN]

\* manageStatusReload that clears shotCount when the magazine is removed
manageStatusReload_ClearsOnRemoval(g) ==
    CASE g.reloadStatus = RELOAD_WAITING_FOR_MAGAZINE_OUT ->
           IF ~isMagazineButtonPressed(g)
           THEN [g EXCEPT !.reloadStatus = RELOAD_WAITING_FOR_MAGAZINE_IN,
                          !.shotCount = 0]
           ELSE g
      [] g.reloadStatus = RELOAD_WAITING_FOR_MAGAZINE_IN ->
           IF isMagazineButtonPressed(g)
           THEN transitionToStatusIdle(g)
           ELSE g
      [] OTHER -> g

manageStatusReload(g) ==
    CASE g.reloadStatus = RELOAD_WAITING_FOR_MAGAZINE_OUT ->
           IF ~isMagazineButtonPressed(g)
           THEN [g EXCEPT !.reloadStatus = RELOAD_WAITING_FOR_MAGAZINE_IN]
           ELSE g
      [] g.reloadStatus = RELOAD_WAITING_FOR_MAGAZINE_IN ->
           IF isMagazineButtonPressed(g)
           THEN transitionToStatusIdle([g EXCEPT !.shotCount = 0])
           ELSE g
      [] OTHER -> g

\* ------------------------------------------------------------------
\* Menu: pages and cursor
\* ------------------------------------------------------------------

mapMenuRowToSettingId(g, menuRow) ==
    LET settingId == g.currMenuPageFirstSettingId + menuRow
    IN  IF settingId < numTotSettings THEN settingId ELSE -1

evalMenuPageNumSettingsByFirstSettingId(firstSettingId) ==
    LET remainingSettings == Max(numTotSettings - firstSettingId, 0)
    IN  Min(NUM_MAX_SETTINGS_PER_MENU_PAGE, remainingSettings)

evalMenuPageNumSettings(page) ==
    evalMenuPageNumSettingsByFirstSettingId(page * NUM_MAX_SETTINGS_PER_MENU_PAGE)

moveMenuCursorTo(g, menuRow) ==
    IF menuRow = g.currMenuCursorPos THEN g
    ELSE IF mapMenuRowToSettingId(g, menuRow) = -1 THEN g
    ELSE [g EXCEPT !.currMenuCursorPos = menuRow]

displayMenuPage(g, page, menuRow) ==
    IF page >= numMenuPages THEN g
    ELSE
      LET first == page * NUM_MAX_SETTINGS_PER_MENU_PAGE
          g1 == [g EXCEPT
                   !.currMenuPage = page,
                   !.currMenuPageFirstSettingId = first,
                   !.currMenuPageNumSettings =
                       evalMenuPageNumSettingsByFirstSettingId(first),
                   !.currMenuCursorPos = -1]
      IN  moveMenuCursorTo(g1, menuRow)

moveMenuCursorUp(g) ==
    IF g.currMenuCursorPos > 0
    THEN moveMenuCursorTo(g, g.currMenuCursorPos - 1)
    ELSE IF g.currMenuPage > 0
    THEN LET precPage == g.currMenuPage - 1
         IN  displayMenuPage(g, precPage, evalMenuPageNumSettings(precPage) - 1)
    ELSE g

moveMenuCursorDown(g) ==
    IF g.currMenuCursorPos < g.currMenuPageNumSettings - 1
    THEN moveMenuCursorTo(g, g.currMenuCursorPos + 1)
    ELSE IF g.currMenuPage < numMenuPages - 1
    THEN displayMenuPage(g, g.currMenuPage + 1, 0)
    ELSE g

\* ------------------------------------------------------------------
\* Menu: the setting being modified (settingValue)
\* ------------------------------------------------------------------

\* valuePtr is the id of the field of tempSettings the pointer refers to
initSettingValueBool(g, valuePtr) ==
    [g EXCEPT !.settingValue.valueType = SETTING_TYPE_BOOL,
              !.settingValue.valuePtr = valuePtr,
              !.settingValue.currBoolValue = g.tempSettings[SettingField(valuePtr)]]

initSettingValueUInt(g, valuePtr, minVal, maxVal, longPressDelta) ==
    [g EXCEPT !.settingValue.valueType = SETTING_TYPE_UINT,
              !.settingValue.valuePtr = valuePtr,
              !.settingValue.currUIntValue = g.tempSettings[SettingField(valuePtr)],
              !.settingValue.uintValueMin = minVal,
              !.settingValue.uintValueMax = maxVal,
              !.settingValue.longPressDelta = longPressDelta]

commitSetting(g) ==
    CASE g.settingValue.valueType = SETTING_TYPE_BOOL ->
           [g EXCEPT !.tempSettings[SettingField(g.settingValue.valuePtr)] =
                         g.settingValue.currBoolValue]
      [] g.settingValue.valueType = SETTING_TYPE_UINT ->
           [g EXCEPT !.tempSettings[SettingField(g.settingValue.valuePtr)] =
                         g.settingValue.currUIntValue]
      [] OTHER -> g

getSettingValue(g, settingId) ==
    CASE settingId \in { ID_SETTING_SHOT_DELAY_MS, ID_SETTING_BURST_DELAY_MS,
                        ID_SETTING_DWELL_MS, ID_SETTING_TRIGGER_DEBOUNCING_MS } ->
           initSettingValueUInt(g, settingId, SETTING_DELAY_VALUE_MIN,
                                SETTING_DELAY_VALUE_MAX,
                                SETTING_DELAY_LONG_PRESS_DELTA)
      [] settingId \in { ID_SETTING_NUM_SHOTS_PER_BURST, ID_SETTING_SHOT_LIMIT } ->
           initSettingValueUInt(g, settingId, SETTING_NUM_SHOT_VALUE_MIN,
                                SETTING_NUM_SHOT_VALUE_MAX,
                                SETTING_NUM_SHOT_LONG_PRESS_DELTA)
      [] settingId \in { ID_SETTING_FULL_AUTO_BURST, ID_SETTING_BINARY_TRIGGER,
                        ID_SETTING_FORCE_RELOAD, ID_SETTING_MUZZLE_FLASH,
                        ID_SETTINGS_INVERTED_FIRE_SELECTOR } ->
           initSettingValueBool(g, settingId)
      [] OTHER -> g

displayPageForSettingModify(g) ==
    LET settingId == mapMenuRowToSettingId(g, g.currMenuCursorPos)
        g1 == getSettingValue(g, settingId)
    IN  [g1 EXCEPT !.currPressButtonId = ID_BUTTON_INVALID]

\* returns [g, ret]
updateMenuPage(g) ==
    LET up == thereIsANewPress(g, ID_BUTTON_JOY_UP)
        down == thereIsANewPress(up.g, ID_BUTTON_JOY_DOWN)
        left == thereIsANewPress(down.g, ID_BUTTON_JOY_LEFT)
        right == thereIsANewPress(left.g, ID_BUTTON_JOY_RIGHT)
        select == thereIsANewPress(right.g, ID_BUTTON_JOY_SELECT)
    IN  IF up.ret THEN [g |-> moveMenuCursorUp(up.g), ret |-> MENU_CONTINUE]
        ELSE IF down.ret
        THEN [g |-> moveMenuCursorDown(down.g), ret |-> MENU_CONTINUE]
        ELSE IF left.ret THEN [g |-> left.g, ret |-> MENU_DISCARD_AND_EXIT]
        ELSE IF right.ret THEN [g |-> right.g, ret |-> MENU_SAVE_AND_EXIT]
        ELSE IF select.ret
        THEN [g |-> displayPageForSettingModify(
                        [select.g EXCEPT !.menuMode = MENU_MODE_MODIFY_SETTING]),
              ret |-> MENU_CONTINUE]
        ELSE [g |-> select.g, ret |-> MENU_CONTINUE]

\* updateMenuSettingBool that asks twice for a new press of down
updateMenuSettingBool_AsksDownTwice(g) ==
    LET up == thereIsANewPress(g, ID_BUTTON_JOY_UP)
        down1 == thereIsANewPress(up.g, ID_BUTTON_JOY_DOWN)
        down == thereIsANewPress(down1.g, ID_BUTTON_JOY_DOWN)
    IN  IF up.ret
        THEN [up.g EXCEPT !.settingValue.currBoolValue = ~@]
        ELSE IF down.ret
        THEN [down.g EXCEPT !.settingValue.currBoolValue = ~@]
        ELSE down.g

updateMenuSettingBool(g) ==
    LET up == thereIsANewPress(g, ID_BUTTON_JOY_UP)
        down == thereIsANewPress(up.g, ID_BUTTON_JOY_DOWN)
    IN  IF up.ret
        THEN [up.g EXCEPT !.settingValue.currBoolValue = ~@]
        ELSE IF down.ret
        THEN [down.g EXCEPT !.settingValue.currBoolValue = ~@]
        ELSE down.g

\* incDecAndDisplaySettingValue that steps without looking at the bound
incDecAndDisplaySettingValue_NoClamp(g, delta, doIncrement) ==
    LET sv == g.settingValue
    IN  IF doIncrement
        THEN IF sv.currUIntValue < sv.uintValueMax
             THEN [g EXCEPT !.settingValue.currUIntValue =
                       (sv.currUIntValue + delta) % 65536]
             ELSE g
        ELSE IF sv.currUIntValue > sv.uintValueMin
             THEN [g EXCEPT !.settingValue.currUIntValue =
                       (sv.currUIntValue - delta) % 65536]
             ELSE g

incDecAndDisplaySettingValue(g, delta, doIncrement) ==
    LET sv == g.settingValue
    IN  IF doIncrement
        THEN IF sv.currUIntValue < sv.uintValueMax
             THEN [g EXCEPT !.settingValue.currUIntValue =
                       IF sv.currUIntValue < (sv.uintValueMax - delta) % 65536
                       THEN (sv.currUIntValue + delta) % 65536
                       ELSE sv.uintValueMax]
             ELSE g
        ELSE IF sv.currUIntValue > sv.uintValueMin
             THEN [g EXCEPT !.settingValue.currUIntValue =
                       IF sv.currUIntValue > (sv.uintValueMin + delta) % 65536
                       THEN (sv.currUIntValue - delta) % 65536
                       ELSE sv.uintValueMin]
             ELSE g

\* returns [g, ret]
manageCursorUpDown(g, buttonId, doIncrement) ==
    LET n == thereIsANewPress(g, buttonId)
    IN  IF n.ret
        THEN [g |-> incDecAndDisplaySettingValue(
                        [n.g EXCEPT !.sincePressStartMs = 0,
                                    !.sinceLastModificationMs = 0,
                                    !.currPressButtonId = buttonId],
                        1, doIncrement),
              ret |-> TRUE]
        ELSE IF ~buttonIsPressed(n.g, buttonId)
        THEN [g |-> IF n.g.currPressButtonId = buttonId
                    THEN [n.g EXCEPT !.currPressButtonId = ID_BUTTON_INVALID]
                    ELSE n.g,
              ret |-> FALSE]
        ELSE IF n.g.currPressButtonId # buttonId
        THEN [g |-> [n.g EXCEPT !.currPressButtonId = ID_BUTTON_INVALID],
              ret |-> TRUE]
        ELSE IF n.g.sincePressStartMs >= minDurationForLongPressMs
                /\ n.g.sinceLastModificationMs >= longPressIntervalBetweenIncDecMs
        THEN [g |-> incDecAndDisplaySettingValue(
                        [n.g EXCEPT !.sinceLastModificationMs = 0],
                        n.g.settingValue.longPressDelta, doIncrement),
              ret |-> TRUE]
        ELSE [g |-> n.g, ret |-> TRUE]

updateMenuSettingUInt(g) ==
    LET up == manageCursorUpDown(g, ID_BUTTON_JOY_UP, TRUE)
        down == manageCursorUpDown(up.g, ID_BUTTON_JOY_DOWN, FALSE)
    IN  IF up.ret THEN up.g ELSE down.g

updateMenuSetting(g) ==
    LET left == thereIsANewPress(g, ID_BUTTON_JOY_LEFT)
        right == thereIsANewPress(left.g, ID_BUTTON_JOY_RIGHT)
    IN  IF left.ret
        THEN displayMenuPage(
                 [left.g EXCEPT !.menuMode = MENU_MODE_DISPLAY_MENU_PAGE],
                 left.g.currMenuPage, left.g.currMenuCursorPos)
        ELSE IF right.ret
        THEN LET c == commitSetting(right.g)
             IN  displayMenuPage(
                     [c EXCEPT !.menuMode = MENU_MODE_DISPLAY_MENU_PAGE],
                     c.currMenuPage, c.currMenuCursorPos)
        ELSE CASE right.g.settingValue.valueType = SETTING_TYPE_UINT ->
                    updateMenuSettingUInt(right.g)
               [] right.g.settingValue.valueType = SETTING_TYPE_BOOL ->
                    updateMenuSettingBool(right.g)
               [] OTHER -> right.g

\* ------------------------------------------------------------------
\* Top level menu interface
\* ------------------------------------------------------------------

\* commitSettings that does not compare the burst size
commitSettings_IgnoresBurstSize(g) ==
    IF /\ g.settings.binaryTrigger = g.tempSettings.binaryTrigger
       /\ g.settings.forceReload = g.tempSettings.forceReload
       /\ g.settings.fullAutoBurst = g.tempSettings.fullAutoBurst
       /\ g.settings.invertedFireSelector = g.tempSettings.invertedFireSelector
       /\ g.settings.muzzleFlash = g.tempSettings.muzzleFlash
       /\ g.settings.burstDelayMs = g.tempSettings.burstDelayMs
       /\ g.settings.shotDelayMs = g.tempSettings.shotDelayMs
       /\ g.settings.dwellMs = g.tempSettings.dwellMs
       /\ g.settings.triggerDebouncingMs = g.tempSettings.triggerDebouncingMs
       /\ g.settings.shotLimit = g.tempSettings.shotLimit
    THEN [g |-> g, ret |-> FALSE]
    ELSE [g |-> [g EXCEPT !.settings = g.tempSettings], ret |-> TRUE]

\* returns [g, ret]; compares field by field, then copies the whole record
commitSettings(g) ==
    IF /\ g.settings.binaryTrigger = g.tempSettings.binaryTrigger
       /\ g.settings.forceReload = g.tempSettings.forceReload
       /\ g.settings.fullAutoBurst = g.tempSettings.fullAutoBurst
       /\ g.settings.invertedFireSelector = g.tempSettings.invertedFireSelector
       /\ g.settings.muzzleFlash = g.tempSettings.muzzleFlash
       /\ g.settings.burstDelayMs = g.tempSettings.burstDelayMs
       /\ g.settings.shotDelayMs = g.tempSettings.shotDelayMs
       /\ g.settings.dwellMs = g.tempSettings.dwellMs
       /\ g.settings.triggerDebouncingMs = g.tempSettings.triggerDebouncingMs
       /\ g.settings.numShotsPerBurst = g.tempSettings.numShotsPerBurst
       /\ g.settings.shotLimit = g.tempSettings.shotLimit
    THEN [g |-> g, ret |-> FALSE]
    ELSE [g |-> [g EXCEPT !.settings = g.tempSettings], ret |-> TRUE]

displayMenuExitMessage(g, msgId, delayMs) ==
    delay(Log(g, Ev("displayMenuExitMessage", 0, msgId)), delayMs)

displayFirstMenuPage(g) ==
    displayMenuPage([g EXCEPT !.tempSettings = g.settings,
                              !.menuMode = MENU_MODE_DISPLAY_MENU_PAGE], 0, 0)

\* returns [g, ret]
updateMenu(g) ==
    CASE g.menuMode = MENU_MODE_DISPLAY_MENU_PAGE -> updateMenuPage(g)
      [] g.menuMode = MENU_MODE_MODIFY_SETTING ->
           [g |-> updateMenuSetting(g), ret |-> MENU_CONTINUE]
      [] OTHER -> [g |-> g, ret |-> MENU_CONTINUE]

\* ------------------------------------------------------------------
\* Menu and idle status management
\* ------------------------------------------------------------------

\* saveNewSettingsToEepromAndDisplayExitMessage that commits without
\* writing to the EEPROM
saveNewSettings_NoWrite(g) ==
    LET c == commitSettings(g)
    IN  IF ~c.ret
        THEN displayMenuExitMessage(c.g, ID_MENU_EXIT_MESSAGE_NOT_MODIFIED,
                                    MENU_EXIT_MESSAGE_DURATION_MS)
        ELSE displayMenuExitMessage(c.g, ID_MENU_EXIT_MESSAGE_SAVED,
                                    MENU_EXIT_MESSAGE_DURATION_MS)

saveNewSettingsToEepromAndDisplayExitMessage(g) ==
    LET c == commitSettings(g)
    IN  IF ~c.ret
        THEN displayMenuExitMessage(c.g, ID_MENU_EXIT_MESSAGE_NOT_MODIFIED,
                                    MENU_EXIT_MESSAGE_DURATION_MS)
        ELSE displayMenuExitMessage(saveSettingsToEeprom(c.g),
                                    ID_MENU_EXIT_MESSAGE_SAVED,
                                    MENU_EXIT_MESSAGE_DURATION_MS)

transitionToStatusMenu(g) ==
    [displayFirstMenuPage(g) EXCEPT !.status = STATUS_MENU]

\* manageStatusMenu that commits the edited settings on a discard too
manageStatusMenu_DiscardCommits(g) ==
    LET u == updateMenu(g)
    IN  CASE u.ret = MENU_SAVE_AND_EXIT ->
               transitionToStatusIdle(
                   saveNewSettingsToEepromAndDisplayExitMessage(u.g))
          [] u.ret = MENU_DISCARD_AND_EXIT ->
               transitionToStatusIdle(
                   displayMenuExitMessage(commitSettings(u.g).g,
                                          ID_MENU_EXIT_MESSAGE_DISCARDED,
                                          MENU_EXIT_MESSAGE_DURATION_MS))
          [] OTHER -> u.g

manageStatusMenu(g) ==
    LET u == updateMenu(g)
    IN  CASE u.ret = MENU_SAVE_AND_EXIT ->
               transitionToStatusIdle(
                   saveNewSettingsToEepromAndDisplayExitMessage(u.g))
          [] u.ret = MENU_DISCARD_AND_EXIT ->
               transitionToStatusIdle(
                   displayMenuExitMessage(u.g, ID_MENU_EXIT_MESSAGE_DISCARDED,
                                          MENU_EXIT_MESSAGE_DURATION_MS))
          [] OTHER -> u.g

\* manageStatusIdle with the two fire modes swapped
manageStatusIdle_ModesSwapped(g) ==
    LET t == isTriggerPressed(g)
        j == thereIsANewJoySelectPress(t.g)
    IN  IF t.ret
        THEN IF isFireSelectorInAutoPosition(t.g)
             THEN transitionToStatusSemiAuto(t.g)
             ELSE transitionToStatusFullAuto(t.g)
        ELSE IF j.ret THEN transitionToStatusMenu(j.g)
        ELSE j.g

\* manageStatusIdle that fires the first shot itself
manageStatusIdle_FiresFirstShot(g) ==
    LET t == isTriggerPressed(g)
        j == thereIsANewJoySelectPress(t.g)
    IN  IF t.ret
        THEN IF isFireSelectorInAutoPosition(t.g)
             THEN doOneShot(transitionToStatusFullAuto(t.g)).g
             ELSE doOneShot(transitionToStatusSemiAuto(t.g)).g
        ELSE IF j.ret THEN transitionToStatusMenu(j.g)
        ELSE j.g

\* manageStatusIdle that opens the menu whether or not the trigger is pressed
manageStatusIdle_MenuFirst(g) ==
    LET t == isTriggerPressed(g)
        j == thereIsANewJoySelectPress(t.g)
    IN  IF j.ret THEN transitionToStatusMenu(j.g)
        ELSE IF t.ret
        THEN IF isFireSelectorInAutoPosition(t.g)
             THEN transitionToStatusFullAuto(t.g)
             ELSE transitionToStatusSemiAuto(t.g)
        ELSE j.g

manageStatusIdle(g) ==
    LET t == isTriggerPressed(g)
        j == thereIsANewJoySelectPress(t.g)
    IN  IF t.ret
        THEN IF isFireSelectorInAutoPosition(t.g)
             THEN transitionToStatusFullAuto(t.g)
             ELSE transitionToStatusSemiAuto(t.g)
        ELSE IF j.ret THEN transitionToStatusMenu(j.g)
        ELSE j.g

\* ------------------------------------------------------------------
\* setup() and loop()
\* ------------------------------------------------------------------

\* oledDisplayInit() blocks for 250 + 2000 ms before the settings are read
oledDisplayInit(g) == delay(delay(g, 250), 2000)

\* setup that does not initialise an EEPROM without valid settings
setup_NoWriteBack(g) ==
    LET g1 == oledDisplayInit([g EXCEPT !.shotCount = 0])
        r == readSettingsFromEeprom(g1)
    IN  transitionToStatusIdle(r.g)

setup(g) ==
    LET g1 == oledDisplayInit([g EXCEPT !.shotCount = 0])
        r == readSettingsFromEeprom(g1)
        g2 == IF ~r.ret THEN saveSettingsToEeprom(r.g) ELSE r.g
    IN  transitionToStatusIdle(g2)

\* the switch of loop() on the status, after the buttons were read
manageStatus(g1) ==
    CASE g1.status = STATUS_IDLE -> manageStatusIdle(g1)
      [] g1.status = STATUS_FULL_AUTO -> manageStatusFullAuto(g1)
      [] g1.status = STATUS_SEMI_AUTO -> manageStatusSemiAuto(g1)
      [] g1.status = STATUS_BINARY_TRIGGER_TAIL ->
           manageStatusBinaryTriggerTail(g1)
      [] g1.status = STATUS_RELOAD -> manageStatusReload(g1)
      [] g1.status = STATUS_MENU -> manageStatusMenu(g1)
      [] OTHER -> g1

loop(g) == manageStatus(readAllButtons(g))

\* ------------------------------------------------------------------
\* State
\* ------------------------------------------------------------------

VARIABLES
    pc,                          \* "setup" before setup() has run, then "loop"
    status, reloadStatus, shotCount, currBurstShotCount,
    settings, buttons, eeprom,
    out,                         \* levels of the output pins
    tempSettings, settingValue, menuMode,
    currMenuPage, currMenuPageNumSettings, currMenuCursorPos,
    currMenuPageFirstSettingId,
    currPressButtonId,
    sincePressStartMs,           \* millis() - currPressStartTimeMs
    sinceLastModificationMs,     \* millis() - lastModificationTimeMs
    hw,                          \* trace of the last setup() or loop() call
    loopParity,                  \* number of loop() calls so far, modulo 2
    menuEntries,                 \* number of times the menu was opened
    trigLevel,                   \* level of the trigger line when the last
                                 \* loop() call read it, or would have
    burstShots,                  \* shots fired since the current burst began
    burstStartShotCount,         \* shotCount when the current burst began
    magOutSeen,                  \* a call of loop() has seen the magazine out
                                 \* in the RELOAD of the last call, if any
    edge,                        \* per joystick button: the new presses
                                 \* reported in the current press
    polled,                      \* per button, at the poll of the last call:
                                 \* raw: the level of the line,
                                 \* since: millis() - startTimeMs,
                                 \* held: how long the line has had that level
                                 \* duration: what buttonPressDuration returns,
                                 \* pressed: how long the debounced state has
                                 \* been pressed (0 if it is released)
    selectReleased,              \* the joystick select button has been seen
                                 \* released since the menu was last opened
    relShots,                    \* shots fired by the calls of loop() since
                                 \* the trigger line was last pressed
    offShots                     \* shots started since the line of the fire
                                 \* selector was last in the auto position

progVars ==
    << status, reloadStatus, shotCount, currBurstShotCount, settings, buttons,
       eeprom, out, tempSettings, settingValue, menuMode, currMenuPage,
       currMenuPageNumSettings, currMenuCursorPos, currMenuPageFirstSettingId,
       currPressButtonId, sincePressStartMs, sinceLastModificationMs >>

obsVars ==
    << hw, loopParity, menuEntries, trigLevel, burstShots, burstStartShotCount,
       magOutSeen, edge, polled, selectReleased, relShots, offShots >>

vars == << pc, progVars, obsVars >>

\* the globals as the record g the operators above work on
Globals(pin, trigAfter) ==
    [ status |-> status, reloadStatus |-> reloadStatus, shotCount |-> shotCount,
      currBurstShotCount |-> currBurstShotCount, settings |-> settings,
      buttons |-> buttons, eeprom |-> eeprom, out |-> out,
      tempSettings |-> tempSettings, settingValue |-> settingValue,
      menuMode |-> menuMode, currMenuPage |-> currMenuPage,
      currMenuPageNumSettings |-> currMenuPageNumSettings,
      currMenuCursorPos |-> currMenuCursorPos,
      currMenuPageFirstSettingId |-> currMenuPageFirstSettingId,
      currPressButtonId |-> currPressButtonId,
      sincePressStartMs |-> sincePressStartMs,
      sinceLastModificationMs |-> sinceLastModificationMs,
      pin |-> pin, trigAfter |-> trigAfter, hw |-> << >> ]

Store(g) ==
    /\ status' = g.status
    /\ reloadStatus' = g.reloadStatus
    /\ shotCount' = g.shotCount
    /\ currBurstShotCount' = g.currBurstShotCount
    /\ settings' = g.settings
    /\ buttons' = g.buttons
    /\ eeprom' = g.eeprom
    /\ out' = g.out
    /\ tempSettings' = g.tempSettings
    /\ settingValue' = g.settingValue
    /\ menuMode' = g.menuMode
    /\ currMenuPage' = g.currMenuPage
    /\ currMenuPageNumSettings' = g.currMenuPageNumSettings
    /\ currMenuCursorPos' = g.currMenuCursorPos
    /\ currMenuPageFirstSettingId' = g.currMenuPageFirstSettingId
    /\ currPressButtonId' = g.currPressButtonId
    /\ sincePressStartMs' = g.sincePressStartMs
    /\ sinceLastModificationMs' = g.sinceLastModificationMs
    /\ hw' = g.hw

InputPins ==
    { triggerPin, fireSelectorPin, magazinePin, joyUpPin, joyLeftPin,
      joySelectPin, joyRightPin, joyDownPin }

JoyPins == { joyUpPin, joyLeftPin, joySelectPin, joyRightPin, joyDownPin }

AllReleased == [p \in InputPins |-> BUTTON_RELEASED]

\* Static initialisation of the globals other than status, menuMode and
\* settingValue (zero, or the initialiser given), with the EEPROM holding
\* one of the images in `images`.
InitRest(images) ==
    /\ reloadStatus = 0
    /\ shotCount = 0
    /\ currBurstShotCount = 0
    /\ settings = DefaultSettings
    /\ buttons = [i \in 0 .. numButtons - 1 |-> InitButton]
    /\ eeprom \in images
    /\ out = [p \in {solenoidPin, muzzlePin} |-> "LOW"]
    /\ tempSettings = DefaultSettings
    /\ currMenuPage = 0
    /\ currMenuPageNumSettings = 0
    /\ currMenuCursorPos = 0
    /\ currMenuPageFirstSettingId = 0
    /\ currPressButtonId = 0
    /\ sincePressStartMs = 0
    /\ sinceLastModificationMs = 0
    /\ hw = << >>
    /\ loopParity = 0
    /\ menuEntries = 0
    /\ trigLevel = BUTTON_RELEASED
    /\ burstShots = 0
    /\ burstStartShotCount = 0
    /\ magOutSeen = FALSE
    /\ edge = [b \in JoyButtons |-> [ok |-> TRUE, n |-> 0]]
    /\ polled = [b \in 0 .. numButtons - 1 |->
                    [raw |-> BUTTON_RELEASED, since |-> 0, held |-> 0,
                     duration |-> 0, pressed |-> 0]]
    /\ selectReleased = TRUE
    /\ relShots = 0
    /\ offShots = 0

\* Static initialisation of the globals, before setup() runs.
InitWith(images) ==
    /\ pc = "setup"
    /\ status = 0
    /\ menuMode = 0
    /\ settingValue = [ valueType |-> 0, valuePtr |-> 0, currBoolValue |-> FALSE,
                        currUIntValue |-> 0, uintValueMin |-> 0,
                        uintValueMax |-> 0, longPressDelta |-> 0 ]
    /\ InitRest(images)

\* setup()
Setup ==
    /\ pc = "setup"
    /\ pc' = "loop"
    /\ \E g \in { setup(Globals(AllReleased, BUTTON_RELEASED)) } : Store(g)
    /\ UNCHANGED << loopParity, menuEntries, trigLevel, burstShots,
                    burstStartShotCount, magOutSeen, edge, polled,
                    selectReleased, relShots, offShots >>

\* The operator of the model edits only the settings in `editable`, and
\* dials numeric values up to MaxEdit only.
EditBound(g, editable) ==
    g.status = STATUS_MENU /\ g.menuMode = MENU_MODE_MODIFY_SETTING
    => /\ g.settingValue.valuePtr \in editable
       /\ g.settingValue.valueType = SETTING_TYPE_UINT
          => g.settingValue.currUIntValue <= MaxEdit

\* ------------------------------------------------------------------
\* Observations of a call of loop() that returned with the globals g
\* ------------------------------------------------------------------

\* the events of a trace h that match op and pin (pin -1: any) and val
\* (val -1: any)
Events(h, op, pin, val) ==
    { i \in 1 .. Len(h) :
        /\ h[i].op = op
        /\ pin = -1 \/ h[i].pin = pin
        /\ val = -1 \/ h[i].val = val }

\* the number of times the trace h switches the solenoid on
Shots(h) == Cardinality({ i \in 1 .. Len(h) :
                            /\ h[i].op = "digitalWrite"
                            /\ h[i].pin = solenoidPin
                            /\ h[i].val = SOLENOID_ON })

BurstStates == { STATUS_SEMI_AUTO, STATUS_BINARY_TRIGGER_TAIL }

\* a burst begins when SEMI_AUTO or BINARY_TRIGGER_TAIL is entered and
\* when the burst delay has been waited
BurstBegins(g) ==
    /\ g.status \in BurstStates
    /\ \/ g.status # status
       \/ Events(g.hw, "delay", 0, g.settings.burstDelayMs) # {}

Observe(g) ==
    /\ burstShots' =
          IF BurstBegins(g) THEN 0
          ELSE IF status \in BurstStates
                  /\ g.status \in BurstStates \cup {STATUS_RELOAD}
          THEN Min(burstShots + Shots(g.hw), MaxTracked)
          ELSE IF status = STATUS_RELOAD /\ g.status = STATUS_RELOAD
          THEN burstShots
          ELSE 0
    /\ burstStartShotCount' =
          IF BurstBegins(g) THEN g.shotCount
          ELSE IF g.status \in BurstStates \cup {STATUS_RELOAD}
                  /\ status \in BurstStates \cup {STATUS_RELOAD}
          THEN burstStartShotCount
          ELSE 0
    /\ magOutSeen' =
          IF status = STATUS_RELOAD
          THEN magOutSeen \/ (g.status = STATUS_RELOAD /\ ~isMagazineButtonPressed(g))
          ELSE FALSE
    /\ edge' =
          [b \in JoyButtons |->
             LET queried == Cardinality(Events(g.hw, "thereIsANewPress", b, -1)) = 1
                 trues == Cardinality(Events(g.hw, "thereIsANewPress", b, 1))
             IN  IF ~buttonIsPressed(g, b)
                 THEN [ok |-> queried, n |-> 0]
                 ELSE [ok |-> edge[b].ok /\ queried,
                       n |-> Min(edge[b].n + trues, MaxTracked)]]

\* the time a call that left the trace h has spent in delay()
RECURSIVE BlockedFrom(_, _)
BlockedFrom(h, i) ==
    IF i > Len(h) THEN 0
    ELSE (IF h[i].op = "delay" THEN h[i].val ELSE 0) + BlockedFrom(h, i + 1)

Blocked(h) == Min(BlockedFrom(h, 1), MaxElapsedMs)

\* The poll of a call made dt ms after the previous call returned, which
\* finds the lines at the levels g.pin and leaves the buttons as in g.  A
\* line that this poll finds changed took its level right after the
\* previous poll if watch is "early", right before this poll if it is
\* "late"; the polls are not observed otherwise.
ObservePoll(g, dt, watch) ==
    /\ polled' =
          IF watch \notin {"early", "late"} THEN polled
          ELSE
          [b \in 0 .. numButtons - 1 |->
             LET level == g.pin[getButtonPin(b)]
                 sincePoll == Min(Blocked(hw) + dt, MaxElapsedMs)
             IN  [raw |-> level,
                  since |-> g.buttons[b].sinceStartMs,
                  held |-> IF level = polled[b].raw
                           THEN Min(polled[b].held + sincePoll, MaxElapsedMs)
                           ELSE IF watch = "early" THEN sincePoll
                           ELSE 0,
                  duration |-> buttonPressDuration(g, b),
                  pressed |-> IF ~buttonIsPressed(g, b)
                                 \/ buttons[b].lastValidStatus # BUTTON_PRESSED
                              THEN 0
                              ELSE Min(polled[b].pressed + sincePoll,
                                       MaxElapsedMs)]]
    /\ selectReleased' =
          IF status # STATUS_MENU /\ status' = STATUS_MENU THEN FALSE
          ELSE selectReleased \/ ~buttonIsPressed(g, ID_BUTTON_JOY_SELECT)

\* the level of the fire selector's line in the auto position
AutoLevel ==
    IF settings.invertedFireSelector THEN BUTTON_RELEASED ELSE BUTTON_PRESSED

\* The shots of a call of loop() that found the lines at the levels p.pin
\* and returned with the globals g, counted since the trigger line was
\* released (watch is "release") and since the selector's line left the
\* auto position (watch is "early": right after the previous poll, before
\* the shot of the previous call; "late": right before this poll).
ObserveShots(p, g, watch) ==
    /\ relShots' =
          IF watch # "release" THEN relShots
          ELSE IF BUTTON_PRESSED \in { p.pin[triggerPin], g.trigAfter }
          THEN 0
          ELSE Min(relShots + Shots(g.hw), 2 * MaxBurst + 1)
    /\ offShots' =
          IF watch \notin {"early", "late"} THEN offShots
          ELSE IF p.pin[fireSelectorPin] = AutoLevel THEN 0
          ELSE IF buttons[ID_BUTTON_FIRE_SELECTOR].buttonStatus = AutoLevel
          THEN (IF watch = "early" THEN Shots(hw) ELSE 0) + Shots(g.hw)
          ELSE Min(offShots + Shots(g.hw), MaxTracked)

\* One call of loop(), that is manageStatus after readAllButtons: dt ms
\* after the previous call returned, with the input pins at the levels pin,
\* and the trigger line at trigAfter after any blocking delay of this call.
Loop(pin, trigAfter, dt, editable, watch) ==
    /\ pc = "loop"
    /\ \E p \in { readAllButtons(Elapse(Globals(pin, trigAfter), dt)) } :
           /\ \E g \in { manageStatus(p) } :
                  /\ EditBound(g, editable)
                  /\ Store(g)
                  /\ menuEntries' =
                        IF status # STATUS_MENU /\ g.status = STATUS_MENU
                        THEN menuEntries + 1 ELSE menuEntries
                  /\ menuEntries' <= MaxMenuEntries
                  /\ Observe(g)
                  /\ ObserveShots(p, g, watch)
           /\ ObservePoll(p, dt, watch)
    /\ trigLevel' = trigAfter
    /\ loopParity' = 1 - loopParity
    /\ pc' = pc

\* The input levels: the trigger, selector and magazine lines take the
\* levels in trigs, sels and mags; at most one of the joystick buttons in
\* joys is pressed at a time.
PinLevels(trigs, sels, mags, joys) ==
    { pin \in [InputPins -> Level] :
        /\ pin[triggerPin] \in trigs
        /\ pin[fireSelectorPin] \in sels
        /\ pin[magazinePin] \in mags
        /\ \A p \in JoyPins : pin[p] = BUTTON_PRESSED => p \in joys
        /\ Cardinality({p \in JoyPins : pin[p] = BUTTON_PRESSED}) <= 1 }

\* ------------------------------------------------------------------
\* Settings images the EEPROM may hold at power-up: records the program
\* itself can have written (every value inside the menu's ranges).
\* ------------------------------------------------------------------

Image(s) == [magic |-> TRUE, data |-> s]

NoImage == [magic |-> FALSE, data |-> DefaultSettings]

FireImages ==
    { Image([DefaultSettings EXCEPT
                !.shotLimit = MaxShotLimit, !.numShotsPerBurst = MaxBurst,
                !.dwellMs = 100, !.forceReload = fr, !.fullAutoBurst = fab,
                !.binaryTrigger = bt]) :
        fr \in BOOLEAN, fab \in BOOLEAN, bt \in BOOLEAN }
    \cup
    { Image([DefaultSettings EXCEPT
                !.shotLimit = MaxShotLimit, !.numShotsPerBurst = MaxBurst,
                !.binaryTrigger = TRUE, !.dwellMs = 100,
                !.muzzleFlash = mf, !.invertedFireSelector = inv]) :
        mf \in BOOLEAN, inv \in BOOLEAN }

\* ------------------------------------------------------------------
\* Specification of the fire control: the trigger, the fire selector and
\* the magazine switch move freely; the joystick is not touched.
\* ------------------------------------------------------------------

FirePins == PinLevels(Level, Level, Level, {})

FireGaps == { 0, buttonsDebouncingTimeMs + 1 }

\* the trigger level after a blocking delay is read in FULL_AUTO only
TrigAfterLevels(pin) ==
    IF status = STATUS_FULL_AUTO THEN Level ELSE { pin[triggerPin] }

Init == InitWith(FireImages)

LoopFire ==
    \E pin \in FirePins, dt \in FireGaps :
        \E trigAfter \in TrigAfterLevels(pin) : Loop(pin, trigAfter, dt, {}, "off")

Next == Setup \/ LoopFire

Spec == Init /\ [][Next]_vars

\* ------------------------------------------------------------------
\* Specification of the menu: the trigger and four joystick buttons move
\* (one joystick button at a time); the operator edits the shot limit.
\* ------------------------------------------------------------------

MenuImages ==
    { Image([DefaultSettings EXCEPT !.shotLimit = 2, !.numShotsPerBurst = 2]) }

MenuJoys == { joySelectPin, joyDownPin, joyLeftPin, joyRightPin }

MenuPins == PinLevels(Level, {BUTTON_RELEASED}, {BUTTON_RELEASED}, MenuJoys)

MenuEditable == { ID_SETTING_SHOT_LIMIT }

InitMenu == InitWith(MenuImages)

\* between two calls of loop(): no time, or a long time
MenuGaps == { 0, minDurationForLongPressMs }

\* the operator fires first and opens the menu afterwards
LoopMenu ==
    \E pin \in MenuPins, dt \in MenuGaps :
        \E trigAfter \in TrigAfterLevels(pin) :
            /\ menuEntries > 0 => pin[triggerPin] = BUTTON_RELEASED
            /\ Loop(pin, trigAfter, dt, MenuEditable, "off")

NextMenu == Setup \/ LoopMenu

SpecMenu == InitMenu /\ [][NextMenu]_vars

\* ------------------------------------------------------------------
\* Specification of the panel: the trigger and the joystick buttons select
\* and left move freely (one joystick button at a time), before, in and
\* after the menu; the magazine switch moves in RELOAD; no setting is
\* edited; force-reload is off or on.
\* ------------------------------------------------------------------

PanelImages ==
    { Image([DefaultSettings EXCEPT
                !.shotLimit = MaxShotLimit, !.numShotsPerBurst = MaxBurst,
                !.forceReload = FALSE]) }

PanelJoys == { joySelectPin, joyLeftPin }

PanelPins == PinLevels(Level, {BUTTON_RELEASED}, Level, PanelJoys)

InitPanel == InitWith(PanelImages)

\* the same with force-reload and the muzzle flash on
ReloadImages ==
    { Image([DefaultSettings EXCEPT
                !.shotLimit = MaxShotLimit, !.numShotsPerBurst = MaxBurst,
                !.muzzleFlash = TRUE]) }

LoopPanel ==
    \E pin \in PanelPins, dt \in MenuGaps :
        \E trigAfter \in TrigAfterLevels(pin) :
            /\ pin[magazinePin] = BUTTON_PRESSED => status = STATUS_RELOAD
            /\ Loop(pin, trigAfter, dt, {}, "off")

NextPanel == Setup \/ LoopPanel

SpecPanel == InitWith(PanelImages \cup ReloadImages) /\ [][NextPanel]_vars

\* ------------------------------------------------------------------
\* Specification of a change of the burst size: the operator fires, opens
\* the menu with the trigger released, edits the burst size, leaves the
\* menu and fires again; the joystick is touched in IDLE and in the menu
\* only, and the trigger with the joystick at rest only.  The calls of
\* loop() are a long time apart.
\* ------------------------------------------------------------------

BurstEditable == { ID_SETTING_NUM_SHOTS_PER_BURST }

JoystickAtRest ==
    \A b \in JoyButtons :
        /\ buttons[b].buttonStatus = BUTTON_RELEASED
        /\ buttons[b].lastValidStatus = BUTTON_RELEASED

\* every debounce window has passed between two calls of loop()
BurstEditGaps == { minDurationForLongPressMs }

LoopBurstEdit ==
    \E pin \in MenuPins, dt \in BurstEditGaps :
        \E trigAfter \in TrigAfterLevels(pin) :
            /\ pin[triggerPin] = BUTTON_PRESSED
               => /\ status # STATUS_MENU
                  /\ JoystickAtRest
                  /\ \A p \in JoyPins : pin[p] = BUTTON_RELEASED
            /\ (\E p \in JoyPins : pin[p] = BUTTON_PRESSED)
               => status \in {STATUS_IDLE, STATUS_MENU}
            /\ Loop(pin, trigAfter, dt, BurstEditable, "off")

NextBurstEdit == Setup \/ LoopBurstEdit

SpecBurstEdit == InitPanel /\ [][NextBurstEdit]_vars

\* ------------------------------------------------------------------
\* Specification of the editing: the joystick buttons select, down and
\* right move (one at a time), the trigger is not pulled; the operator edits the burst size
\* and the full-auto-burst switch.  The calls of loop() are a long time
\* apart.
\* ------------------------------------------------------------------

EditEditable == { ID_SETTING_NUM_SHOTS_PER_BURST, ID_SETTING_FULL_AUTO_BURST }

EditJoys == { joySelectPin, joyDownPin, joyRightPin }

EditPins ==
    PinLevels({BUTTON_RELEASED}, {BUTTON_RELEASED}, {BUTTON_RELEASED}, EditJoys)

LoopEdit ==
    \E pin \in EditPins, dt \in BurstEditGaps :
        \E trigAfter \in TrigAfterLevels(pin) :
            Loop(pin, trigAfter, dt, EditEditable, "off")

NextEdit == Setup \/ LoopEdit

\* the EEPROM holds stored settings, or nothing valid
SpecEdit == InitWith(PanelImages \cup {NoImage}) /\ [][NextEdit]_vars

\* ------------------------------------------------------------------
\* Specification of the stepping of a number in the modification mode:
\* the menu shows a delay or a number of shots with any value inside its
\* range; the operator steps it up and down with short and long presses.
\* ------------------------------------------------------------------

\* settingValue as getSettingValue leaves it for a delay and for a number
\* of shots, with the value v
EditedValues ==
    { [ valueType |-> SETTING_TYPE_UINT, valuePtr |-> ID_SETTING_DWELL_MS,
        currBoolValue |-> FALSE, currUIntValue |-> v,
        uintValueMin |-> SETTING_DELAY_VALUE_MIN,
        uintValueMax |-> SETTING_DELAY_VALUE_MAX,
        longPressDelta |-> SETTING_DELAY_LONG_PRESS_DELTA ] :
        v \in SETTING_DELAY_VALUE_MIN .. SETTING_DELAY_VALUE_MAX }
    \cup
    { [ valueType |-> SETTING_TYPE_UINT,
        valuePtr |-> ID_SETTING_NUM_SHOTS_PER_BURST,
        currBoolValue |-> FALSE, currUIntValue |-> v,
        uintValueMin |-> SETTING_NUM_SHOT_VALUE_MIN,
        uintValueMax |-> SETTING_NUM_SHOT_VALUE_MAX,
        longPressDelta |-> SETTING_NUM_SHOT_LONG_PRESS_DELTA ] :
        v \in SETTING_NUM_SHOT_VALUE_MIN .. SETTING_NUM_SHOT_VALUE_MAX }

InitIncDec ==
    /\ pc = "loop"
    /\ status = STATUS_MENU
    /\ menuMode = MENU_MODE_MODIFY_SETTING
    /\ settingValue \in EditedValues
    /\ InitRest(PanelImages)

\* one call of incDecAndDisplaySettingValue, traced with the value before
\* the call (pin) and the step, negative for a decrement (val)
IncDec ==
    /\ pc = "loop"
    /\ status = STATUS_MENU /\ menuMode = MENU_MODE_MODIFY_SETTING
    /\ \E delta \in { 1, settingValue.longPressDelta }, doIncrement \in BOOLEAN :
          \E g \in { incDecAndDisplaySettingValue(
                         Globals(AllReleased, BUTTON_RELEASED),
                         delta, doIncrement) } :
              Store(Log(g, Ev("incDecAndDisplaySettingValue",
                              settingValue.currUIntValue,
                              IF doIncrement THEN delta ELSE 0 - delta)))
    /\ UNCHANGED << pc, loopParity, menuEntries, trigLevel, burstShots,
                    burstStartShotCount, magOutSeen, edge, polled,
                    selectReleased, relShots, offShots >>

NextIncDec == IncDec

SpecIncDec == InitIncDec /\ [][NextIncDec]_vars

\* ------------------------------------------------------------------
\* Specification of the power-up: the EEPROM holds settings behind the
\* magic prefix, or settings behind something else, or nothing the
\* program wrote; the trigger is not pulled, the fire selector, the
\* magazine switch and the joystick button select move.
\* ------------------------------------------------------------------

BootImages ==
    { [magic |-> mg, data |-> d] :
        mg \in BOOLEAN,
        d \in { DefaultSettings,
                [DefaultSettings EXCEPT !.shotLimit = MaxShotLimit,
                                        !.muzzleFlash = TRUE] } }

BootPins == PinLevels({BUTTON_RELEASED}, Level, Level, {joySelectPin})

InitBoot == InitWith(BootImages)

LoopBoot ==
    \E pin \in BootPins, dt \in FireGaps :
        \E trigAfter \in TrigAfterLevels(pin) :
            Loop(pin, trigAfter, dt, {}, "off")

NextBoot == Setup \/ LoopBoot

SpecBoot == InitBoot /\ [][NextBoot]_vars

\* ------------------------------------------------------------------
\* Specification of the debouncing: the trigger and the fire selector
\* move freely, also while a call of loop() is blocked; calls follow one
\* another at once, after exactly the debounce time, or after more.
\* ------------------------------------------------------------------

DebounceImages ==
    { Image([DefaultSettings EXCEPT
                !.shotLimit = MaxShotLimit, !.numShotsPerBurst = MaxBurst,
                !.forceReload = FALSE]) }

DebouncePins == PinLevels(Level, Level, {BUTTON_PRESSED}, {})

DebounceGaps == { 0, buttonsDebouncingTimeMs, buttonsDebouncingTimeMs + 1 }

InitDebounce == InitWith(DebounceImages)

LoopDebounce ==
    \E pin \in DebouncePins, dt \in DebounceGaps :
        \E trigAfter \in TrigAfterLevels(pin), watch \in {"late", "early"} :
            Loop(pin, trigAfter, dt, {}, watch)

NextDebounce == Setup \/ LoopDebounce

SpecDebounce == InitDebounce /\ [][NextDebounce]_vars

\* ------------------------------------------------------------------
\* Properties
\* ------------------------------------------------------------------

\* a step that is one call of loop()
LoopStep == pc = "loop" /\ loopParity' # loopParity

\* the fire selector is in the auto position (debounced)
SelectorAuto ==
    (buttons[ID_BUTTON_FIRE_SELECTOR].lastValidStatus = BUTTON_PRESSED)
        # settings.invertedFireSelector

MagazinePresent ==
    buttons[ID_BUTTON_MAGAZINE].lastValidStatus = BUTTON_PRESSED

LimitReached == settings.forceReload /\ shotCount >= settings.shotLimit

BurstDone == currBurstShotCount >= settings.numShotsPerBurst

\* this call of loop() calls doOneShot: a burst state with the burst not
\* done, or FULL_AUTO with the selector polled in the auto position
CallsShot ==
    \/ status \in BurstStates /\ ~BurstDone
    \/ status = STATUS_FULL_AUTO /\ SelectorAuto'

NoOutput(h) == Events(h, "digitalWrite", -1, -1) = {}

NoDelay(h) == Events(h, "delay", -1, -1) = {}

\* C1: when force-reload is enabled and shotCount >= shotLimit, a call of
\* doOneShot returns false, leaves shotCount unchanged and writes neither
\* the solenoid nor the muzzle output.
C1_RefusedShotDoesNothing ==
    [][ LoopStep /\ CallsShot /\ LimitReached
        => /\ Events(hw', "doOneShot", 0, 0) # {}
           /\ Events(hw', "doOneShot", 0, 1) = {}
           /\ shotCount' = shotCount
           /\ NoOutput(hw')
           /\ out' = out ]_vars

C1_Witness ==
    /\ pc = "loop"
    /\ Events(hw, "doOneShot", 0, 0) # {}
    /\ LimitReached
    /\ shotCount = MaxShotLimit

\* C3: whenever doOneShot returns false, the machine is in RELOAD, waiting
\* for the magazine to go out, when that call of loop() returns; doOneShot
\* was called once in it and no output was written.
C3_RefusedShotGoesToReload ==
    Events(hw, "doOneShot", 0, 0) # {}
    => /\ status = STATUS_RELOAD
       /\ reloadStatus = RELOAD_WAITING_FOR_MAGAZINE_OUT
       /\ Cardinality(Events(hw, "doOneShot", 0, -1)) = 1
       /\ NoOutput(hw)

C3_Witness ==
    /\ Events(hw, "doOneShot", 0, 0) # {}
    /\ status = STATUS_RELOAD
    /\ burstShots = 1

\* C2: in every reachable state 0 <= shotCount <= settings.shotLimit,
\* also after a menu commit that changes shotLimit or forceReload.
C2_ShotCountWithinLimit ==
    0 <= shotCount /\ shotCount <= settings.shotLimit

\* the shots left before the limit when the current burst began
Remaining == settings.shotLimit - burstStartShotCount

\* C4: with force-reload enabled, a SEMI_AUTO burst that begins with
\* r = shotLimit - shotCount < burstSize shots left fires exactly r shots,
\* one per call of loop(), which brings shotCount to shotLimit, and the
\* call after the r-th shot fires nothing and goes to RELOAD.
C4_ShortBurstThenReload ==
    [][ LoopStep /\ status = STATUS_SEMI_AUTO /\ settings.forceReload
            /\ Remaining < settings.numShotsPerBurst
        => IF burstShots < Remaining
           THEN /\ Shots(hw') = 1
                /\ burstShots' = burstShots + 1
                /\ shotCount' = shotCount + 1
                /\ status' = STATUS_SEMI_AUTO
           ELSE /\ Shots(hw') = 0
                /\ burstShots = Remaining
                /\ burstShots' = Remaining
                /\ shotCount = settings.shotLimit
                /\ shotCount' = shotCount
                /\ status' = STATUS_RELOAD ]_vars

C4_Witness ==
    /\ status = STATUS_RELOAD
    /\ settings.forceReload
    /\ Remaining < settings.numShotsPerBurst
    /\ Remaining >= 1
    /\ burstShots = Remaining
    /\ shotCount = settings.shotLimit
    /\ Events(hw, "doOneShot", 0, 0) # {}

\* C5: a call of loop() in RELOAD goes to IDLE, with shotCount reset to 0,
\* exactly when an earlier call in this RELOAD has seen the magazine out
\* and this call sees it in; any other call in RELOAD stays in RELOAD and
\* leaves shotCount alone (so a magazine that is never seen out keeps the
\* machine in RELOAD).
C5_ReloadNeedsRemovalThenInsertion ==
    [][ LoopStep /\ status = STATUS_RELOAD
        => IF magOutSeen /\ MagazinePresent'
           THEN status' = STATUS_IDLE /\ shotCount' = 0
           ELSE status' = STATUS_RELOAD /\ shotCount' = shotCount ]_vars

C5_Witness ==
    /\ status = STATUS_IDLE
    /\ magOutSeen
    /\ MagazinePresent
    /\ shotCount = 0

\* C6: a call of loop() in FULL_AUTO that polls the selector in the auto
\* position, reads the trigger pressed and does not find the shot limit
\* reached fires exactly one shot and stays in FULL_AUTO.
C6_FullAutoOneShotPerLoop ==
    [][ LoopStep /\ status = STATUS_FULL_AUTO /\ SelectorAuto'
            /\ trigLevel' = BUTTON_PRESSED /\ ~LimitReached
        => /\ Shots(hw') = 1
           /\ Cardinality(Events(hw', "doOneShot", 0, 1)) = 1
           /\ status' = STATUS_FULL_AUTO ]_vars

C6_Witness ==
    /\ status = STATUS_FULL_AUTO
    /\ Shots(hw) = 1
    /\ trigLevel = BUTTON_PRESSED
    /\ SelectorAuto

\* C7: with binaryTrigger on and fullAutoBurst off, a call of loop() in
\* SEMI_AUTO with the burst done (burstSize shots fired), the selector not
\* in auto and the trigger released enters BINARY_TRIGGER_TAIL with the
\* burst counter at 0 and fires nothing; each call in BINARY_TRIGGER_TAIL
\* with the burst not done and the limit not reached fires one shot and
\* stays; the call that finds the burst done (burstSize shots fired in the
\* tail) goes to IDLE whatever the inputs are, without shot or delay.
C7_BinaryTriggerTail ==
    [][ LoopStep /\ settings.binaryTrigger /\ ~settings.fullAutoBurst
        => /\ ( status = STATUS_SEMI_AUTO /\ BurstDone /\ ~SelectorAuto'
                  /\ trigLevel' = BUTTON_RELEASED )
              => /\ status' = STATUS_BINARY_TRIGGER_TAIL
                 /\ currBurstShotCount' = 0
                 /\ burstShots = settings.numShotsPerBurst
                 /\ burstShots' = 0
                 /\ Shots(hw') = 0
           /\ ( status = STATUS_BINARY_TRIGGER_TAIL /\ ~BurstDone
                  /\ ~LimitReached )
              => /\ status' = STATUS_BINARY_TRIGGER_TAIL
                 /\ Shots(hw') = 1
                 /\ burstShots' = burstShots + 1
           /\ ( status = STATUS_BINARY_TRIGGER_TAIL /\ BurstDone )
              => /\ status' = STATUS_IDLE
                 /\ burstShots = settings.numShotsPerBurst
                 /\ Shots(hw') = 0
                 /\ NoDelay(hw') ]_vars

C7_Witness ==
    /\ status = STATUS_BINARY_TRIGGER_TAIL
    /\ BurstDone
    /\ burstShots = settings.numShotsPerBurst
    /\ settings.binaryTrigger /\ ~settings.fullAutoBurst

\* C8: a call of loop() in SEMI_AUTO with the burst done that polls the
\* selector in the auto position goes to IDLE, whatever the trigger,
\* fullAutoBurst and binaryTrigger are, writes no output and waits no delay.
C8_SelectorAutoEndsSemiAuto ==
    [][ LoopStep /\ status = STATUS_SEMI_AUTO /\ BurstDone /\ SelectorAuto'
        => /\ status' = STATUS_IDLE
           /\ Shots(hw') = 0
           /\ NoOutput(hw')
           /\ NoDelay(hw') ]_vars

\* IDLE reached from SEMI_AUTO by the selector, with the trigger held
C8_Witness ==
    /\ pc = "loop"
    /\ status = STATUS_IDLE
    /\ hw = << >>
    /\ BurstDone /\ SelectorAuto
    /\ ~magOutSeen /\ ~settings.binaryTrigger /\ settings.fullAutoBurst
    /\ trigLevel = BUTTON_PRESSED

\* C9: with fullAutoBurst off, a call of loop() in SEMI_AUTO with the burst
\* done that reads the trigger pressed and polls the selector not in auto
\* stays in SEMI_AUTO and fires nothing: the pull has fired burstSize
\* shots and that number does not change.
C9_HeldTriggerFiresOneBurst ==
    [][ LoopStep /\ status = STATUS_SEMI_AUTO /\ ~settings.fullAutoBurst
            /\ BurstDone /\ trigLevel' = BUTTON_PRESSED /\ ~SelectorAuto'
        => /\ status' = STATUS_SEMI_AUTO
           /\ Shots(hw') = 0
           /\ NoOutput(hw')
           /\ burstShots = settings.numShotsPerBurst
           /\ burstShots' = burstShots ]_vars

C9_Witness ==
    /\ status = STATUS_SEMI_AUTO
    /\ ~settings.fullAutoBurst
    /\ BurstDone
    /\ Shots(hw) = 0
    /\ Events(hw, "digitalRead", triggerPin, 1) # {}
    /\ ~SelectorAuto
    /\ burstShots = settings.numShotsPerBurst

\* C10: for a joystick button that is polled in every call of loop() and
\* queried with thereIsANewPress exactly once in every call since it was
\* last seen released, the queries of the current press have returned
\* true exactly once (in the first call that saw the debounced state
\* pressed, so never again while held); and no query returns true while
\* the debounced state is released.
C10_OneNewPressPerPress ==
    \A b \in JoyButtons :
        /\ buttons[b].lastValidStatus = BUTTON_PRESSED /\ edge[b].ok
           => edge[b].n = 1
        /\ Events(hw, "thereIsANewPress", b, 1) # {}
           => buttons[b].lastValidStatus = BUTTON_PRESSED

\* a held button whose query has returned false in the last call
C10_Witness ==
    \E b \in JoyButtons :
        /\ buttons[b].lastValidStatus = BUTTON_PRESSED
        /\ edge[b].ok
        /\ edge[b].n = 1
        /\ Events(hw, "thereIsANewPress", b, 0) # {}
        /\ Events(hw, "thereIsANewPress", b, 1) = {}

\* the debounced channels
Channels == 0 .. numButtons - 1

\* C11 as stated: at every poll, a line that has held its level for more
\* than the debounce window since it changed has that level as its
\* debounced value, and the debounced value changes only then; also when
\* the line changed while loop() was blocked.
C11_DebouncedOnceWindowElapsed ==
    [][ LoopStep
        => \A b \in Channels :
              /\ polled'[b].held > buttonsDebouncingTimeMs
                 => buttons'[b].lastValidStatus = polled'[b].raw
              /\ buttons'[b].lastValidStatus # buttons[b].lastValidStatus
                 => polled'[b].held > buttonsDebouncingTimeMs ]_vars

\* C11 as amended: the window is counted from the poll that first samples
\* the changed level.  At every poll, a line sampled at the same level by
\* polls spanning more than the debounce window has that level as its
\* debounced value; before that the debounced value does not change; and it
\* never changes before the line has held its level for more than the
\* window.
C11_DebouncedOnceWindowElapsedSincePoll ==
    [][ LoopStep
        => \A b \in Channels :
              /\ polled'[b].since > buttonsDebouncingTimeMs
                 => buttons'[b].lastValidStatus = polled'[b].raw
              /\ polled'[b].since <= buttonsDebouncingTimeMs
                 => buttons'[b].lastValidStatus = buttons[b].lastValidStatus
              /\ buttons'[b].lastValidStatus # buttons[b].lastValidStatus
                 => polled'[b].held > buttonsDebouncingTimeMs ]_vars

\* the selector line went low while loop() was blocked: the poll of a call
\* in a firing state finds it held for more than the window, starts the
\* timer, and the debounced value does not follow yet
C11_Witness ==
    /\ status \in {STATUS_SEMI_AUTO, STATUS_FULL_AUTO}
    /\ polled[ID_BUTTON_FIRE_SELECTOR].raw = BUTTON_PRESSED
    /\ polled[ID_BUTTON_FIRE_SELECTOR].since = 0
    /\ polled[ID_BUTTON_FIRE_SELECTOR].held > buttonsDebouncingTimeMs
    /\ buttons[ID_BUTTON_FIRE_SELECTOR].lastValidStatus = BUTTON_RELEASED
    /\ Shots(hw) = 1

\* C12: the debounced state of a channel changes only in a poll of loop()
\* where millis() - startTimeMs is strictly greater than the debounce
\* window, and then to the level sampled; a poll that samples a changed
\* level leaves the debounced state alone, so a level that reverts within
\* the window is never taken.
C12_DebouncedChangesOnlyAfterWindow ==
    [][ \A b \in Channels :
           /\ buttons'[b].lastValidStatus # buttons[b].lastValidStatus
              => /\ LoopStep
                 /\ polled'[b].since > buttonsDebouncingTimeMs
                 /\ buttons'[b].buttonStatus = buttons[b].buttonStatus
                 /\ buttons'[b].lastValidStatus = buttons'[b].buttonStatus
           /\ buttons'[b].buttonStatus # buttons[b].buttonStatus
              => /\ polled'[b].since = 0
                 /\ buttons'[b].lastValidStatus = buttons[b].lastValidStatus
           /\ LoopStep /\ polled'[b].since = buttonsDebouncingTimeMs
              => buttons'[b].lastValidStatus = buttons[b].lastValidStatus ]_vars

\* the selector line went high and was sampled low again exactly one
\* window later: the debounced state is still pressed
C12_Witness ==
    /\ pc = "loop"
    /\ polled[ID_BUTTON_FIRE_SELECTOR].raw = BUTTON_PRESSED
    /\ polled[ID_BUTTON_FIRE_SELECTOR].since = 0
    /\ polled[ID_BUTTON_FIRE_SELECTOR].held = 0
    /\ buttons[ID_BUTTON_FIRE_SELECTOR].sinceStartMs = 0
    /\ buttons[ID_BUTTON_FIRE_SELECTOR].lastValidStatus = BUTTON_PRESSED

\* the reads of an input line made by the handler of a call with trace h
Reads(h) == Events(h, "digitalRead", -1, -1)

\* C13 as stated: every input value a handler uses is the debounced value
\* captured by readAllButtons at the start of the call; the handler reads
\* no input line itself, in particular not after a shot.
C13_HandlersUseStartSnapshot == Reads(hw) = {}

\* C13 as amended: the selector and the magazine switch are used as
\* debounced at the start of the call, and the handler reads one line
\* only, the trigger's, raw, at most once per call, at the moment it tests
\* it: in FULL_AUTO after the shot, so that the level found is the one
\* the line has after the blocking window.
C13_OnlyTriggerIsReadRaw ==
    [][ LoopStep
        => /\ Cardinality(Reads(hw')) <= 1
           /\ \A i \in Reads(hw') :
                 /\ hw'[i].pin = triggerPin
                 /\ hw'[i].val = IF trigLevel' = BUTTON_PRESSED THEN 1 ELSE 0
                 /\ status = STATUS_FULL_AUTO
                    => \E j \in Events(hw', "doOneShot", 0, 1) : j < i
           /\ status \in {STATUS_RELOAD, STATUS_BINARY_TRIGGER_TAIL}
              => Reads(hw') = {}
           /\ status = STATUS_IDLE /\ status' = STATUS_FULL_AUTO => SelectorAuto'
           /\ status = STATUS_IDLE /\ status' = STATUS_SEMI_AUTO => ~SelectorAuto'
           /\ status = STATUS_FULL_AUTO /\ ~SelectorAuto'
              => status' = STATUS_IDLE /\ Reads(hw') = {}
           /\ status = STATUS_RELOAD /\ status' = STATUS_IDLE
              => MagazinePresent' ]_vars

\* FULL_AUTO: the trigger was read after the shot of the call
C13_Witness ==
    /\ status = STATUS_FULL_AUTO
    /\ \E i \in Reads(hw) :
          /\ hw[i].val = 1
          /\ \E j \in Events(hw, "doOneShot", 0, 1) : j < i

\* C15 as stated: a call of loop() in IDLE that reads the trigger pressed
\* goes to FULL_AUTO if the selector is in the auto position and to
\* SEMI_AUTO if not, and currBurstShotCount is 0 on entry to either.
C15_IdleTriggerEntersFireModeCounterZero ==
    [][ LoopStep /\ status = STATUS_IDLE /\ trigLevel' = BUTTON_PRESSED
        => /\ status' = IF SelectorAuto' THEN STATUS_FULL_AUTO
                        ELSE STATUS_SEMI_AUTO
           /\ currBurstShotCount' = 0 ]_vars

\* C15 as amended: a call of loop() in IDLE that reads the trigger pressed
\* goes to FULL_AUTO if the selector is in the auto position and to
\* SEMI_AUTO if not; currBurstShotCount is 0 on entry to SEMI_AUTO and
\* keeps its value on entry to FULL_AUTO; the call fires nothing.
C15_IdleTriggerEntersFireMode ==
    [][ LoopStep /\ status = STATUS_IDLE /\ trigLevel' = BUTTON_PRESSED
        => /\ status' = IF SelectorAuto' THEN STATUS_FULL_AUTO
                        ELSE STATUS_SEMI_AUTO
           /\ currBurstShotCount' = IF SelectorAuto' THEN currBurstShotCount
                                    ELSE 0
           /\ Shots(hw') = 0 ]_vars

\* FULL_AUTO just entered with the counter of an earlier burst
C15_Witness ==
    /\ status = STATUS_FULL_AUTO
    /\ Len(hw) = 1
    /\ Events(hw, "digitalRead", triggerPin, 1) = {1}
    /\ currBurstShotCount = settings.numShotsPerBurst
    /\ SelectorAuto

\* the trace h ends with a delay of ms milliseconds
EndsWithDelay(h, ms) ==
    /\ Len(h) > 0
    /\ h[Len(h)].op = "delay"
    /\ h[Len(h)].val = ms

\* C17: a call of loop() in FULL_AUTO that polls the selector not in the
\* auto position goes to IDLE and does not call doOneShot: nothing is
\* written, no time is waited and shotCount is unchanged.
C17_FullAutoSelectorOffGoesIdle ==
    [][ LoopStep /\ status = STATUS_FULL_AUTO /\ ~SelectorAuto'
        => /\ status' = STATUS_IDLE
           /\ Events(hw', "doOneShot", 0, -1) = {}
           /\ NoOutput(hw')
           /\ NoDelay(hw')
           /\ shotCount' = shotCount ]_vars

\* IDLE reached from FULL_AUTO by the selector, shots fired before
C17_Witness ==
    /\ pc = "loop"
    /\ status = STATUS_IDLE
    /\ hw = << >>
    /\ ~SelectorAuto
    /\ ~magOutSeen /\ ~settings.binaryTrigger /\ settings.forceReload
    /\ shotCount > 0
    /\ currBurstShotCount = 0

\* C18: a call of loop() in FULL_AUTO in which doOneShot returns true and
\* the trigger is then read released waits triggerDebouncingMs and goes to
\* IDLE, whatever binaryTrigger is; no call in FULL_AUTO goes to
\* BINARY_TRIGGER_TAIL.
C18_FullAutoReleaseGoesIdle ==
    [][ LoopStep /\ status = STATUS_FULL_AUTO
        => /\ status' # STATUS_BINARY_TRIGGER_TAIL
           /\ Events(hw', "doOneShot", 0, 1) # {}
                 /\ trigLevel' = BUTTON_RELEASED
              => /\ status' = STATUS_IDLE
                 /\ EndsWithDelay(hw', settings.triggerDebouncingMs)
                 /\ Shots(hw') = 1 ]_vars

C18_Witness ==
    /\ status = STATUS_IDLE
    /\ settings.binaryTrigger
    /\ Events(hw, "doOneShot", 0, 1) # {}
    /\ Events(hw, "digitalRead", triggerPin, 0) # {}
    /\ EndsWithDelay(hw, settings.triggerDebouncingMs)
    /\ SelectorAuto

\* C19: with fullAutoBurst on, a call of loop() in SEMI_AUTO with the burst
\* done that polls the selector not in auto and reads the trigger pressed
\* resets the burst counter to 0, waits burstDelayMs, fires nothing and
\* stays in SEMI_AUTO; every call in SEMI_AUTO with the burst not done and
\* the shot limit not reached fires one shot of the next burst, and a
\* burst is done when burstSize shots of it were fired.
C19_FullAutoBurstRepeats ==
    [][ LoopStep /\ status = STATUS_SEMI_AUTO /\ settings.fullAutoBurst
        => /\ BurstDone => burstShots = settings.numShotsPerBurst
           /\ BurstDone /\ ~SelectorAuto' /\ trigLevel' = BUTTON_PRESSED
              => /\ status' = STATUS_SEMI_AUTO
                 /\ currBurstShotCount' = 0
                 /\ burstShots' = 0
                 /\ EndsWithDelay(hw', settings.burstDelayMs)
                 /\ Shots(hw') = 0
           /\ ~BurstDone /\ ~LimitReached
              => /\ status' = STATUS_SEMI_AUTO
                 /\ Shots(hw') = 1
                 /\ currBurstShotCount' = currBurstShotCount + 1
                 /\ burstShots' = burstShots + 1 ]_vars

\* a burst is done, the trigger is held: the counter was reset and
\* burstDelayMs waited
C19_Witness ==
    /\ status = STATUS_SEMI_AUTO
    /\ settings.fullAutoBurst
    /\ currBurstShotCount = 0
    /\ burstShots = 0
    /\ EndsWithDelay(hw, settings.burstDelayMs)
    /\ trigLevel = BUTTON_PRESSED
    /\ ~SelectorAuto

C16_SelectPressOpensMenu ==
    [][ LoopStep /\ status = STATUS_IDLE /\ trigLevel' = BUTTON_RELEASED
            /\ buttons'[ID_BUTTON_JOY_SELECT].lastValidStatus = BUTTON_PRESSED
            /\ selectReleased
        => status' = STATUS_MENU ]_vars

\* C14 as stated: in every reachable state, also in IDLE and MENU after a
\* burst and after a menu commit that lowers the burst size,
\* 0 <= currBurstShotCount <= settings.numShotsPerBurst.
C14_BurstCountWithinBurstSize ==
    0 <= currBurstShotCount /\ currBurstShotCount <= settings.numShotsPerBurst

\* C14 as amended: the bound holds in the states that fire bursts,
\* SEMI_AUTO and BINARY_TRIGGER_TAIL, also after a menu commit that lowers
\* the burst size; in the other states the counter is what the last burst
\* left, never negative.
C14_BurstCountWithinBurstSizeInBurst ==
    /\ 0 <= currBurstShotCount
    /\ status \in BurstStates
       => currBurstShotCount <= settings.numShotsPerBurst

\* a burst of the lowered size is done after the menu has lowered it
C14_Witness ==
    /\ status = STATUS_SEMI_AUTO
    /\ menuEntries > 0
    /\ settings.numShotsPerBurst < MaxBurst
    /\ eeprom.data.numShotsPerBurst = settings.numShotsPerBurst
    /\ BurstDone
    /\ burstShots = settings.numShotsPerBurst

\* C21: a burst is fired one shot per call of loop(): no call of loop()
\* calls doOneShot more than once; a call in SEMI_AUTO or
\* BINARY_TRIGGER_TAIL with the burst not done and the limit not reached
\* fires exactly one shot and stays, whatever the trigger and the selector
\* read; when the burst is done it has taken burstSize shots, one per call.
C21_BurstOneShotPerLoop ==
    [][ LoopStep
        => /\ Cardinality(Events(hw', "doOneShot", -1, -1)) <= 1
           /\ Shots(hw') <= 1
           /\ ( status \in BurstStates /\ ~BurstDone /\ ~LimitReached )
              => /\ Shots(hw') = 1
                 /\ status' = status
                 /\ currBurstShotCount' = currBurstShotCount + 1
                 /\ burstShots' = burstShots + 1
           /\ ( status \in BurstStates /\ BurstDone )
              => /\ Shots(hw') = 0
                 /\ burstShots = settings.numShotsPerBurst ]_vars

\* the second shot of a burst, fired by a call that read the trigger
\* released and polled the selector in the auto position
C21_Witness ==
    /\ status = STATUS_SEMI_AUTO
    /\ Shots(hw) = 1
    /\ burstShots = 2
    /\ BurstDone
    /\ trigLevel = BUTTON_RELEASED
    /\ SelectorAuto

\* the event e is the call op on pin with val
EvIs(e, op, pin, val) == e.op = op /\ e.pin = pin /\ e.val = val

\* the outward calls of a doOneShot that fires, in their order
ShotSequence ==
    IF settings.muzzleFlash
    THEN << Ev("digitalWrite", solenoidPin, SOLENOID_ON),
            Ev("digitalWrite", muzzlePin, "HIGH"),
            Ev("delay", 0, settings.dwellMs),
            Ev("digitalWrite", solenoidPin, SOLENOID_OFF),
            Ev("digitalWrite", muzzlePin, "LOW"),
            Ev("delay", 0, settings.shotDelayMs),
            Ev("doOneShot", 0, 1) >>
    ELSE << Ev("digitalWrite", solenoidPin, SOLENOID_ON),
            Ev("delay", 0, settings.dwellMs),
            Ev("digitalWrite", solenoidPin, SOLENOID_OFF),
            Ev("delay", 0, settings.shotDelayMs),
            Ev("doOneShot", 0, 1) >>

\* the trace h holds the events of the sequence s in a row, ending at i
HoldsAt(h, s, i) ==
    /\ i >= Len(s)
    /\ \A k \in 1 .. Len(s) :
          EvIs(h[i - Len(s) + k], s[k].op, s[k].pin, s[k].val)

\* C22: a call of doOneShot that fires adds exactly 1 to shotCount if
\* forceReload is on and leaves it unchanged otherwise, switches the
\* solenoid on, waits dwellMs, switches it off, waits shotDelayMs and
\* returns true; the muzzle output is written only if muzzleFlash is on,
\* high right after the solenoid is switched on and low right after it is
\* switched off, so that no time passes with the muzzle output high and
\* the solenoid off; both outputs are off when the call returns.
C22_FiringShotSequence ==
    [][ LoopStep
        => \A i \in Events(hw', "doOneShot", 0, 1) :
              /\ HoldsAt(hw', ShotSequence, i)
              /\ Cardinality(Events(hw', "digitalWrite", -1, -1))
                    = IF settings.muzzleFlash THEN 4 ELSE 2
              /\ shotCount' = IF settings.forceReload
                              THEN shotCount + 1 ELSE shotCount
              /\ out'[solenoidPin] = SOLENOID_OFF
              /\ out'[muzzlePin] = "LOW" ]_vars

\* a shot with the muzzle flash has been fired and counted
C22_Witness ==
    /\ Events(hw, "doOneShot", 0, 1) # {}
    /\ settings.muzzleFlash /\ settings.forceReload
    /\ settings.dwellMs # settings.shotDelayMs
    /\ Events(hw, "digitalWrite", muzzlePin, -1) # {}
    /\ shotCount = 2

\* the exit messages of the menu shown by a call that left the trace h
ExitMessages(h) ==
    { h[i].val : i \in Events(h, "displayMenuExitMessage", -1, -1) }

\* this call of loop() is in the menu's page mode and gets a new press of
\* the joystick button b from updateMenuPage
PagePress(b) ==
    /\ status = STATUS_MENU
    /\ menuMode = MENU_MODE_DISPLAY_MENU_PAGE
    /\ Events(hw', "thereIsANewPress", b, 1) # {}

\* C23: a call of loop() changes the live settings only if it starts in
\* MENU, updateMenu returns MENU_SAVE_AND_EXIT and the edited settings
\* differ from the live ones, and then the live settings become the edited
\* ones; a call in another state, a call in MENU that continues and a call
\* that discards leave every field of the settings unchanged.
C23_SettingsChangeOnlyOnSave ==
    [][ LoopStep
        => /\ settings' # settings
              => /\ PagePress(ID_BUTTON_JOY_RIGHT)
                 /\ tempSettings # settings
                 /\ settings' = tempSettings
           /\ ( status # STATUS_MENU
                \/ status' = STATUS_MENU
                \/ PagePress(ID_BUTTON_JOY_LEFT) )
              => settings' = settings ]_vars

\* a save has changed the live settings
C23_Witness ==
    /\ status = STATUS_IDLE
    /\ ExitMessages(hw) = { ID_MENU_EXIT_MESSAGE_SAVED }
    /\ settings.numShotsPerBurst < MaxBurst
    /\ settings = tempSettings

\* C24: in a call of loop() in MENU where updateMenu returns
\* MENU_SAVE_AND_EXIT, commitSettings returns true exactly when a field of
\* the edited settings differs from the live settings: then the live
\* settings become the edited ones, they are written to the EEPROM and
\* the message SAVED is shown; when no field differs nothing is written
\* and the message NOT MODIFIED is shown.  After a save and after a
\* discard the machine is in IDLE when the call returns.
C24_SaveCommitsExactlyWhenModified ==
    [][ LoopStep
        => /\ PagePress(ID_BUTTON_JOY_RIGHT) /\ tempSettings # settings
              => /\ settings' = tempSettings
                 /\ eeprom' = Image(tempSettings)
                 /\ Cardinality(Events(hw', "EEPROM.put", -1, -1)) = 1
                 /\ ExitMessages(hw') = { ID_MENU_EXIT_MESSAGE_SAVED }
                 /\ status' = STATUS_IDLE
           /\ PagePress(ID_BUTTON_JOY_RIGHT) /\ tempSettings = settings
              => /\ settings' = settings
                 /\ eeprom' = eeprom
                 /\ Events(hw', "EEPROM.put", -1, -1) = {}
                 /\ ExitMessages(hw') = { ID_MENU_EXIT_MESSAGE_NOT_MODIFIED }
                 /\ status' = STATUS_IDLE
           /\ PagePress(ID_BUTTON_JOY_LEFT)
              => /\ eeprom' = eeprom
                 /\ ExitMessages(hw') = { ID_MENU_EXIT_MESSAGE_DISCARDED }
                 /\ status' = STATUS_IDLE ]_vars

\* the edited burst size has been written to the EEPROM
C24_Witness ==
    /\ status = STATUS_IDLE
    /\ ExitMessages(hw) = { ID_MENU_EXIT_MESSAGE_SAVED }
    /\ Events(hw, "EEPROM.put", -1, -1) # {}
    /\ eeprom.data.numShotsPerBurst < MaxBurst
    /\ eeprom.data = settings

\* C25: right after a poll, buttonPressDuration returns 0 for a button
\* whose debounced state is released and, for one whose debounced state
\* is pressed, not less than the time for which the debounced state has
\* been pressed, whatever the raw level has done since it became pressed.
C25_PressDurationSinceDebouncedPress ==
    \A b \in Channels :
        /\ buttons[b].lastValidStatus = BUTTON_RELEASED
           => polled[b].duration = 0
        /\ buttons[b].lastValidStatus = BUTTON_PRESSED
           => polled[b].duration >= polled[b].pressed

\* a step that is the call of setup()
SetupStep == pc = "setup" /\ pc' = "loop"

\* C26: setup(), which runs before the first call of loop(): if the
\* EEPROM does not begin with the magic prefix, the live settings are the
\* compiled-in defaults, whatever the EEPROM holds, and they are written
\* to the EEPROM behind the magic prefix; if it does, the live settings
\* are the stored ones and nothing is written.
C26_StartupSettings ==
    [][ SetupStep
        => /\ ~eeprom.magic
              => /\ settings' = DefaultSettings
                 /\ eeprom' = Image(DefaultSettings)
                 /\ Cardinality(Events(hw', "EEPROM.put", -1, -1)) = 1
           /\ eeprom.magic
              => /\ settings' = eeprom.data
                 /\ eeprom' = eeprom
                 /\ Events(hw', "EEPROM.put", -1, -1) = {}
           /\ loopParity = 0 /\ menuEntries = 0 ]_vars

\* setup() has found no magic prefix and has written the defaults
C26_Witness ==
    /\ pc = "loop"
    /\ loopParity = 0 /\ status = STATUS_IDLE
    /\ Events(hw, "EEPROM.put", -1, -1) # {}
    /\ settings = DefaultSettings
    /\ eeprom = Image(DefaultSettings)

\* C27: in every call of loop(), in IDLE, in the menu's page mode and in
\* its modification mode, thereIsANewPress is called at most once for
\* each button.
C27_OneQueryPerButtonPerLoop ==
    [][ LoopStep
        => \A b \in Channels :
              Cardinality(Events(hw', "thereIsANewPress", b, -1)) <= 1 ]_vars

\* a call in the modification mode of a switch has got the new press of
\* down, after left, right and up were queried
C27_Witness ==
    /\ status = STATUS_MENU
    /\ menuMode = MENU_MODE_MODIFY_SETTING
    /\ settingValue.valueType = SETTING_TYPE_BOOL
    /\ settingValue.currBoolValue
    /\ Events(hw, "thereIsANewPress", ID_BUTTON_JOY_LEFT, 0) # {}
    /\ Events(hw, "thereIsANewPress", ID_BUTTON_JOY_RIGHT, 0) # {}
    /\ Events(hw, "thereIsANewPress", ID_BUTTON_JOY_UP, 0) # {}
    /\ Events(hw, "thereIsANewPress", ID_BUTTON_JOY_DOWN, 1) # {}

\* the calls of incDecAndDisplaySettingValue in the trace h
Steps(h) == Events(h, "incDecAndDisplaySettingValue", -1, -1)

\* C28: in the modification mode a number that is inside [min, max] stays
\* inside [min, max] (1..2000 for a delay, 1..1000 for a number of shots)
\* under every increment and decrement by 1 and by the long-press step
\* (10 for a delay, 5 for a number of shots): the step goes to the value
\* plus or minus the step, or to the bound if that would pass the bound.
C28_IncDecStaysInsideRange ==
    /\ settingValue.valueType = SETTING_TYPE_UINT
       => /\ settingValue.uintValueMin <= settingValue.currUIntValue
          /\ settingValue.currUIntValue <= settingValue.uintValueMax
    /\ \A i \in Steps(hw) :
          settingValue.currUIntValue
             = Max(settingValue.uintValueMin,
                   Min(settingValue.uintValueMax, hw[i].pin + hw[i].val))

\* a long-press decrement from less than the step above the minimum has
\* stopped at the minimum
C28_Witness ==
    /\ Steps(hw) # {}
    /\ \A i \in Steps(hw) :
          /\ hw[i].val = 0 - SETTING_DELAY_LONG_PRESS_DELTA
          /\ hw[i].pin + hw[i].val < SETTING_DELAY_VALUE_MIN
          /\ hw[i].pin > SETTING_DELAY_VALUE_MIN
    /\ settingValue.currUIntValue = SETTING_DELAY_VALUE_MIN

\* C29: the solenoid and the muzzle output are off whenever no call of
\* loop() is running, and a call of loop() that starts in IDLE, RELOAD or
\* MENU writes no output, fires no shot and does not raise shotCount,
\* whatever the trigger reads: shots are fired only by calls that start in
\* FULL_AUTO, SEMI_AUTO or BINARY_TRIGGER_TAIL.
C29_ShotsOnlyInFireStates ==
    [][ /\ out'[solenoidPin] = SOLENOID_OFF
        /\ out'[muzzlePin] = "LOW"
        /\ LoopStep /\ status \in {STATUS_IDLE, STATUS_RELOAD, STATUS_MENU}
           => /\ NoOutput(hw')
              /\ Events(hw', "doOneShot", -1, -1) = {}
              /\ shotCount' <= shotCount
        /\ LoopStep /\ Shots(hw') > 0
           => status \in {STATUS_FULL_AUTO, STATUS_SEMI_AUTO,
                          STATUS_BINARY_TRIGGER_TAIL} ]_vars

\* the menu is left by a call that has seen the trigger pulled, after
\* shots were fired, with nothing fired during the menu
C29_Witness ==
    /\ status = STATUS_IDLE
    /\ ExitMessages(hw) # {}
    /\ trigLevel = BUTTON_PRESSED
    /\ settings.forceReload /\ shotCount > 0
    /\ out[solenoidPin] = SOLENOID_OFF

\* C30: whenever the machine is in RELOAD, forceReload is on, shotCount
\* is at least shotLimit and reloadStatus is one of the two phases; with
\* forceReload off no call of doOneShot returns false and the machine is
\* not in RELOAD.
C30_ReloadOnlyAtLimit ==
    /\ status = STATUS_RELOAD
       => /\ settings.forceReload
          /\ shotCount >= settings.shotLimit
          /\ reloadStatus \in { RELOAD_WAITING_FOR_MAGAZINE_OUT,
                                RELOAD_WAITING_FOR_MAGAZINE_IN }
    /\ ~settings.forceReload
       => /\ status # STATUS_RELOAD
          /\ Events(hw, "doOneShot", 0, 0) = {}

\* the second phase of a reload
C30_Witness ==
    /\ status = STATUS_RELOAD
    /\ reloadStatus = RELOAD_WAITING_FOR_MAGAZINE_IN
    /\ settings.forceReload
    /\ shotCount = settings.shotLimit
    /\ magOutSeen

\* stored settings with force-reload and the binary trigger on, and a
\* burst short enough for a burst and its tail to end before the shot limit
StatusImages ==
    { Image([DefaultSettings EXCEPT
                !.shotLimit = MaxShotLimit, !.numShotsPerBurst = MaxBurst - 1,
                !.binaryTrigger = TRUE]) }

\* one call of loop() with the trigger and the fire selector free; the
\* magazine moves in RELOAD only, the joystick buttons select and left in
\* IDLE and MENU only
LoopStatus ==
    \E pin \in PinLevels(Level, Level, Level, PanelJoys), dt \in BurstEditGaps :
        \E trigAfter \in TrigAfterLevels(pin) :
            /\ pin[magazinePin] = BUTTON_PRESSED => status = STATUS_RELOAD
            /\ status \notin { STATUS_IDLE, STATUS_MENU }
               => \A b \in PanelJoys : pin[b] = BUTTON_RELEASED
            /\ Loop(pin, trigAfter, dt, {}, "off")

NextStatus == Setup \/ LoopStatus

\* Specification of the control state: every status is reachable
SpecStatus == InitWith(StatusImages) /\ [][NextStatus]_vars

\* the changes of status the program makes
Transitions ==
    { << STATUS_IDLE, STATUS_SEMI_AUTO >>, << STATUS_IDLE, STATUS_FULL_AUTO >>,
      << STATUS_IDLE, STATUS_MENU >>,
      << STATUS_SEMI_AUTO, STATUS_IDLE >>,
      << STATUS_SEMI_AUTO, STATUS_BINARY_TRIGGER_TAIL >>,
      << STATUS_SEMI_AUTO, STATUS_RELOAD >>,
      << STATUS_FULL_AUTO, STATUS_IDLE >>, << STATUS_FULL_AUTO, STATUS_RELOAD >>,
      << STATUS_BINARY_TRIGGER_TAIL, STATUS_IDLE >>,
      << STATUS_BINARY_TRIGGER_TAIL, STATUS_RELOAD >>,
      << STATUS_RELOAD, STATUS_IDLE >>,
      << STATUS_MENU, STATUS_IDLE >> }

\* C31: a call of loop() keeps the status or takes one of these changes:
\* IDLE to SEMI_AUTO, FULL_AUTO or MENU; SEMI_AUTO to IDLE,
\* BINARY_TRIGGER_TAIL or RELOAD; FULL_AUTO to IDLE or RELOAD;
\* BINARY_TRIGGER_TAIL to IDLE or RELOAD; RELOAD to IDLE; MENU to IDLE.
\* MENU is entered only from IDLE by a call that reads the trigger not
\* pressed, and setup() leaves the machine in IDLE.
C31_StatusTransitions ==
    [][ /\ SetupStep => status' = STATUS_IDLE
        /\ LoopStep /\ status' # status
           => << status, status' >> \in Transitions
        /\ LoopStep /\ status' = STATUS_MENU /\ status # STATUS_MENU
           => /\ status = STATUS_IDLE
              /\ Events(hw', "digitalRead", triggerPin, 0) # {}
              /\ Events(hw', "digitalRead", triggerPin, 1) = {} ]_vars

\* the menu was just entered from IDLE with the trigger read released,
\* after a burst and its binary trigger tail were fired
C31_Witness ==
    /\ status = STATUS_MENU
    /\ settings.binaryTrigger
    /\ shotCount > settings.numShotsPerBurst
    /\ Events(hw, "digitalRead", triggerPin, 0) # {}

\* C32: whenever setup() or a call of loop() has returned, the EEPROM
\* holds the magic prefix and, behind it, the live settings; a call of
\* loop() that changes the live settings writes them to the EEPROM in the
\* same call, and a call of loop() that does not change them writes
\* nothing; setup() writes only when it finds no magic prefix.
C32_EepromEqualsSettings ==
    [][ /\ pc' = "loop" => eeprom' = Image(settings')
        /\ LoopStep
           => ( settings' # settings
                <=> Events(hw', "EEPROM.put", -1, -1) # {} )
        /\ SetupStep
           => ( ~eeprom.magic <=> Events(hw', "EEPROM.put", -1, -1) # {} ) ]_vars

\* a save from the menu has changed the live settings of a machine that
\* started with no valid settings in its EEPROM
C32_Witness ==
    /\ status = STATUS_IDLE
    /\ ExitMessages(hw) = { ID_MENU_EXIT_MESSAGE_SAVED }
    /\ settings.shotLimit = DefaultSettings.shotLimit
    /\ settings # DefaultSettings
    /\ eeprom = Image(settings)

\* ------------------------------------------------------------------
\* Specification of the release of the trigger: the trigger and the fire
\* selector move freely, the magazine moves in RELOAD; the shots fired
\* since the trigger was released are counted.  loop() is called again
\* and again, for ever.
\* ------------------------------------------------------------------

\* stored settings with the binary trigger on, and the full-auto burst or
\* the force-reload or neither
ReleaseImages ==
    { Image([DefaultSettings EXCEPT
                !.shotLimit = MaxShotLimit, !.numShotsPerBurst = MaxBurst,
                !.binaryTrigger = TRUE, !.forceReload = fr,
                !.fullAutoBurst = fab]) :
        fr \in BOOLEAN, fab \in BOOLEAN } \ 
    { Image([DefaultSettings EXCEPT
                !.shotLimit = MaxShotLimit, !.numShotsPerBurst = MaxBurst,
                !.binaryTrigger = TRUE, !.forceReload = TRUE,
                !.fullAutoBurst = TRUE]) }

LoopRelease ==
    \E pin \in FirePins, dt \in BurstEditGaps :
        \E trigAfter \in TrigAfterLevels(pin) :
            /\ pin[magazinePin] = BUTTON_PRESSED => status = STATUS_RELOAD
            /\ Loop(pin, trigAfter, dt, {}, "release")

NextRelease == Setup \/ LoopRelease

\* a call of loop() is made and returns
LoopCalled == loopParity' = 1 - loopParity

\* setup() returns, and every call of loop() returns and is followed by
\* another call
SpecRelease ==
    InitWith(ReleaseImages) /\ [][NextRelease]_vars /\ WF_loopParity(LoopCalled)

\* C33: the calls of loop() made while the trigger is released, after it
\* was last pressed, fire at most 2 x numShotsPerBurst shots in all; a
\* call in IDLE or RELOAD with the trigger released fires nothing and
\* leaves the machine in IDLE or RELOAD; and if the trigger stays released
\* for ever, the machine is in IDLE or RELOAD from some call on.
C33_ReleaseEndsFiring ==
    /\ [](relShots <= 2 * settings.numShotsPerBurst)
    /\ [][ LoopStep /\ status \in { STATUS_IDLE, STATUS_RELOAD }
           /\ trigLevel' = BUTTON_RELEASED
           => /\ Shots(hw') = 0
              /\ status' \in { STATUS_IDLE, STATUS_RELOAD } ]_vars
    /\ ( <>[](trigLevel = BUTTON_RELEASED)
         => <>[](status \in { STATUS_IDLE, STATUS_RELOAD }) )

\* the trigger was released before the first shot of a burst: the burst
\* and its binary trigger tail were fired with the trigger released, and
\* the machine is back in IDLE
C33_Witness ==
    /\ status = STATUS_IDLE
    /\ trigLevel = BUTTON_RELEASED
    /\ relShots = 2 * settings.numShotsPerBurst
    /\ currBurstShotCount = settings.numShotsPerBurst

\* the level the last poll read on the fire selector's line is not the
\* auto position
SelectorLineOff == buttons[ID_BUTTON_FIRE_SELECTOR].buttonStatus # AutoLevel

\* C34: with dwellMs + shotDelayMs longer than the debounce time, the
\* calls of loop() made in FULL_AUTO start at most 2 shots after the line
\* of the fire selector has left the auto position for good.  The poll
\* that first reads the new level records it and leaves the debounced
\* position in auto, so that this call fires at most one shot; the poll of
\* the call after that shot commits it, and that call starts no shot and
\* leaves FULL_AUTO for IDLE.
C34_SelectorReleaseLatency ==
    [][ LoopStep /\ status = STATUS_FULL_AUTO
        /\ settings.dwellMs + settings.shotDelayMs > buttonsDebouncingTimeMs
        => /\ offShots' <= 2
           /\ ~SelectorLineOff /\ SelectorAuto /\ SelectorLineOff'
              => SelectorAuto' /\ Shots(hw') <= 1
           /\ SelectorLineOff /\ SelectorLineOff' /\ Shots(hw) > 0
              => /\ ~SelectorAuto'
                 /\ Shots(hw') = 0
                 /\ status' = STATUS_IDLE ]_vars

\* the selector's line left the auto position right after a poll in
\* FULL_AUTO, with the trigger held: two more shots were started, and the
\* call after them has committed the new position and gone to IDLE
C34_Witness ==
    /\ status = STATUS_IDLE
    /\ trigLevel = BUTTON_PRESSED
    /\ SelectorLineOff /\ ~SelectorAuto
    /\ offShots = 2
    /\ Shots(hw) = 0
    /\ polled[ID_BUTTON_FIRE_SELECTOR].held > buttonsDebouncingTimeMs

====
